---- MODULE Spec2Model ----
(***************************************************************************)
(* Power monitor of kepler: node power (internal/monitor/node.go), process *)
(* power attribution (internal/monitor/process.go), the terminated         *)
(* tracker and the snapshot publisher.                                     *)
(*                                                                         *)
(* Energy is an unsigned integer of microjoules, Power an integer of       *)
(* microwatts.  A float64 ratio n/d applied to an integer x and converted  *)
(* back to an integer is modelled as the truncated quotient (x * n) \div d.*)
(***************************************************************************)
EXTENDS Integers, Sequences, FiniteSets, TLC

\* ------------------------------------------------------------------ bounds
\* Modulus of the unsigned Energy type (2^64 in the program, scaled down).
EnergyMod == 64
\* Wrap value (MaxEnergy) of a CPU energy zone.
ZoneMax == 2
\* Denominator of the node CPU usage ratio: the ratio is k / RatioDen.
RatioDen == 2
\* Cap on the cumulative energy totals of a node zone or GPU.
MaxEnergyTotal == 2
\* Cap on the GPU's cumulative hardware counter.
MaxGPUEnergy == 2

\* --------------------------------------------------------------- constants
\* time.Duration counts nanoseconds.
NanosPerSecond == 1000000000

\* ------------------------------------------------------------------- sets
\* Order in which pm.cpu.Zones() lists the zones.
ZoneOrder == <<"package", "dram">>
PIDs == {1, 2, 3}
\* Outcome of a zone read that returned an error.
ReadErr == -1
\* DevicePower(gpuID) returned exists = false.
NoPower == -1
\* Marks a result that has not been computed yet.
NotComputed == -1

VARIABLES
    snapshot,       \* pm.snapshot: the published snapshot
    published,      \* history: number of snapshots published so far, capped at 2
    tracker,        \* pm.terminatedProcessesTracker: pid -> process
    exported,       \* pm.exported
    maxTerminated,  \* configuration: Monitor.MaxTerminated
    minEnergy,      \* configuration: Monitor.MinTerminatedEnergyThreshold
    hasGPU,         \* pm.gpu != nil
    resources,      \* the informer's view after its last Refresh
    dead,           \* pids the informer has reported terminated
    gpuEnergy,      \* cumulative hardware counter of each GPU
    gpuUtil,        \* GPU meter: gpu -> (pid -> SM utilization)
    prevSnapshot,   \* history: the snapshot published before `snapshot`
    lastRead,       \* history: the readings the last tick took
    expHeld,        \* exporter: pids of TerminatedProcesses of the snapshot it holds
    expPc,          \* exporter: "idle" or "encoding"
    curFetched,     \* history: the exporter has taken the current snapshot
    exportCount,    \* history: pid -> number of exported snapshots holding it
    clearedUnseen,  \* history: pids cleared before any exported snapshot held them
    edIn,           \* calculateEnergyDelta: arguments
    edOut,          \* calculateEnergyDelta: result
    loopState,      \* collection loop: "Idle", "FirstRead", "Steady" or "Stopped"
    seq,            \* publish sequence number of the current snapshot, 0 if none
    reader,         \* reader -> what its last two calls of Current() returned
    lastTick        \* history: the outcome of the last tick and the state before it

pmVars == <<snapshot, published, tracker, exported>>
cfgVars == <<maxTerminated, minEnergy, hasGPU>>
envVars == <<resources, dead, gpuEnergy, gpuUtil>>
histVars == <<prevSnapshot, lastRead>>
expVars == <<expHeld, expPc, curFetched, exportCount, clearedUnseen>>
edVars == <<edIn, edOut>>
loopVars == <<loopState, seq, reader, lastTick>>
vars == <<pmVars, cfgVars, envVars, histVars, expVars, edVars, loopVars>>

\* ---------------------------------------------------------------- helpers
Min(a, b) == IF a < b THEN a ELSE b

\* Unsigned wrap-around of the Energy type.
U64(x) == x % EnergyMod

\* Energy(float64(x) * (n / d)) and Power(float64(x) * (n / d)): the product
\* truncated towards zero.  Written so that x * n never exceeds x when n <= d.
Scale(x, n, d) == (x \div d) * n + ((x % d) * n) \div d

RECURSIVE SumOver(_, _)
SumOver(S, f) ==
    IF S = {} THEN 0
    ELSE LET x == CHOOSE y \in S : TRUE
         IN  f[x] + SumOver(S \ {x}, f)

\* ------------------------------------------------- node.go: energy delta
calculateEnergyDeltaNoGuard(current, previous, maxJoules) ==
    IF current >= previous
    THEN current - previous
    ELSE U64(U64(maxJoules - previous) + current)

calculateEnergyDelta(current, previous, maxJoules) ==
    IF current >= previous
    THEN current - previous
    ELSE IF maxJoules > 0
         THEN U64(U64(maxJoules - previous) + current)
         ELSE 0

\* ----------------------------------------------------------- record shapes
Usage(power, energyTotal) == [Power |-> power, EnergyTotal |-> energyTotal]

NodeUsage(energyTotal, activeEnergy, activeTotal, idleTotal, power, activePower, idlePower) ==
    [EnergyTotal |-> energyTotal, activeEnergy |-> activeEnergy,
     ActiveEnergyTotal |-> activeTotal, IdleEnergyTotal |-> idleTotal,
     Power |-> power, ActivePower |-> activePower, IdlePower |-> idlePower]

NoZones == [z \in {} |-> NodeUsage(0, 0, 0, 0, 0, 0, 0)]
NoUsage == [z \in {} |-> Usage(0, 0)]
NoProcesses == [p \in {} |-> [Zones |-> NoUsage, GPUZones |-> NoUsage]]

\* NewSnapshot(): nothing read yet.
NewSnapshot ==
    [Node |-> [UsageRatio |-> 0, Zones |-> NoZones, GPUZones |-> NoZones],
     Processes |-> NoProcesses,
     TerminatedProcesses |-> NoProcesses]

\* MaxEnergy() of a GPU zone: ^uint64(0).
GPUMaxEnergy == EnergyMod - 1

\* ---------------------------------------------- node.go: calculateNodePower
\* The split with the active part rounded up instead of truncated.
SplitDeltaRoundUp(deltaEnergy, n, d) ==
    LET activeEnergy == (deltaEnergy * n + d - 1) \div d
    IN  [activeEnergy |-> activeEnergy, idleEnergy |-> U64(deltaEnergy - activeEnergy)]

\* The split of a zone's delta by the usage ratio n / d: the active part is
\* truncated, the idle part is the rest (an unsigned subtraction).
SplitDelta(deltaEnergy, n, d) ==
    LET activeEnergy == Scale(deltaEnergy, n, d)
    IN  [activeEnergy |-> activeEnergy, idleEnergy |-> U64(deltaEnergy - activeEnergy)]

\* The zone computation with the whole power reported as idle power.
NodeZoneUsageIdleWhole(prevZones, zone, absEnergy, ratio, timeDiff) ==
    IF zone \in DOMAIN prevZones
    THEN LET prevZone == prevZones[zone]
             deltaEnergy == calculateEnergyDelta(absEnergy, prevZone.EnergyTotal, ZoneMax)
             split == SplitDelta(deltaEnergy, ratio, RatioDen)
             power == deltaEnergy \div timeDiff
         IN  NodeUsage(absEnergy, split.activeEnergy,
                       prevZone.ActiveEnergyTotal + split.activeEnergy,
                       prevZone.IdleEnergyTotal + split.idleEnergy,
                       power, Scale(deltaEnergy, ratio, RatioDen * timeDiff), power)
    ELSE NodeUsage(absEnergy, 0, 0, 0, 0, 0, 0)

\* One iteration of the zone loop for a zone whose read succeeded.
NodeZoneUsage(prevZones, zone, absEnergy, ratio, timeDiff) ==
    IF zone \in DOMAIN prevZones
    THEN LET prevZone == prevZones[zone]
             deltaEnergy == calculateEnergyDelta(absEnergy, prevZone.EnergyTotal, ZoneMax)
             activeEnergy == SplitDelta(deltaEnergy, ratio, RatioDen).activeEnergy
             idleEnergy == SplitDelta(deltaEnergy, ratio, RatioDen).idleEnergy
             power == deltaEnergy \div timeDiff
             activePower == Scale(deltaEnergy, ratio, RatioDen * timeDiff)
         IN  NodeUsage(absEnergy, activeEnergy,
                       prevZone.ActiveEnergyTotal + activeEnergy,
                       prevZone.IdleEnergyTotal + idleEnergy,
                       power, activePower, power - activePower)
    ELSE NodeUsage(absEnergy, 0, 0, 0, 0, 0, 0)

\* Position of a zone in the order the meter lists the zones.
ZoneIndex(zone) == CHOOSE i \in 1..Len(ZoneOrder) : ZoneOrder[i] = zone

\* The zone loop leaving at the first failed read instead of skipping it.
calculateNodeZonesAbort(prevZones, reads, ratio, timeDiff) ==
    [zone \in {z \in DOMAIN reads :
                 \A i \in 1..ZoneIndex(z) :
                    ZoneOrder[i] \in DOMAIN reads => reads[ZoneOrder[i]] # ReadErr}
        |-> NodeZoneUsage(prevZones, zone, reads[zone], ratio, timeDiff)]

\* The zone loop: a zone whose read fails is skipped, the others are computed.
calculateNodeZones(prevZones, reads, ratio, timeDiff) ==
    [zone \in {z \in DOMAIN reads : reads[z] # ReadErr}
        |-> NodeZoneUsage(prevZones, zone, reads[zone], ratio, timeDiff)]

\* ------------------------------------------------- node.go: firstNodeRead
firstNodeZones(reads, ratio) ==
    [zone \in {z \in DOMAIN reads : reads[z] # ReadErr}
        |-> LET energy == reads[zone]
                activeEnergy == Scale(energy, ratio, RatioDen)
            IN  NodeUsage(energy, activeEnergy, activeEnergy, energy - activeEnergy, 0, 0, 0)]

\* -------------------------------------------- node.go: collectNodeGPUData
\* timeDiff arrives as time.Duration(seconds), a count of nanoseconds.
GPUZoneUsage(prevGPUZones, gpuID, absEnergy, instantPower, timeDiff) ==
    IF gpuID \in DOMAIN prevGPUZones
    THEN LET prevUsage == prevGPUZones[gpuID]
             deltaEnergy == calculateEnergyDelta(absEnergy, prevUsage.EnergyTotal, GPUMaxEnergy)
             power == IF instantPower # NoPower
                      THEN instantPower
                      ELSE IF timeDiff > 0
                           THEN (deltaEnergy * NanosPerSecond) \div timeDiff
                           ELSE 0
         IN  NodeUsage(absEnergy, deltaEnergy,
                       prevUsage.ActiveEnergyTotal + deltaEnergy,
                       prevUsage.IdleEnergyTotal,
                       power, power, 0)
    ELSE NodeUsage(absEnergy, 0, 0, 0, 0, 0, 0)

collectNodeGPUData(prevGPUZones, greads, devicePower, timeDiff) ==
    [gpuID \in {g \in DOMAIN greads : greads[g] # ReadErr}
        |-> GPUZoneUsage(prevGPUZones, gpuID, greads[gpuID], devicePower[gpuID], timeDiff)]

\* ----------------------------------------------- node.go: initNodeGPUData
initNodeGPUData(greads) ==
    [gpuID \in DOMAIN greads
        |-> NodeUsage(IF greads[gpuID] = ReadErr THEN 0 ELSE greads[gpuID],
                      0, 0, 0, 0, 0, 0)]

\* ----------------------------------------------- process.go: newProcess
newProcess(zones) ==
    [Zones |-> [zone \in DOMAIN zones |-> Usage(0, 0)], GPUZones |-> NoUsage]

\* ------------------------------------------ process.go: firstProcessRead
\* The CPU part; res is the informer's view.
firstProcessZones(zones, res) ==
    [pid \in DOMAIN res.Running |->
        [zone \in DOMAIN zones |->
            IF \/ zones[zone].ActivePower = 0
               \/ zones[zone].activeEnergy = 0
               \/ res.ProcessTotalCPUTimeDelta = 0
            THEN newProcess(zones).Zones[zone]
            ELSE Usage(0, Scale(zones[zone].activeEnergy,
                                res.Running[pid], res.ProcessTotalCPUTimeDelta))]]

\* --------------------------------------- process.go: initProcessGPUPower
\* util: gpu -> (pid -> SM utilization); a pid outside the domain gets an
\* error from ProcessUtilization.
initProcessGPUPower(pids, gpuZones, util) ==
    [pid \in pids |->
        [gpuID \in DOMAIN util \cap DOMAIN gpuZones |->
            LET totalSMUtil == SumOver(DOMAIN util[gpuID] \cap pids, util[gpuID])
            IN  IF pid \in DOMAIN util[gpuID] /\ totalSMUtil > 0
                THEN Usage(0, Scale(gpuZones[gpuID].ActiveEnergyTotal,
                                    util[gpuID][pid], totalSMUtil))
                ELSE Usage(0, 0)]]

\* ------------------------------------- process.go: calculateProcessPower
\* The loop over the running processes and the node's zones.
calculateProcessZones(prev, zones, res) ==
    [pid \in DOMAIN res.Running |->
        [zone \in DOMAIN zones |->
            IF \/ zones[zone].ActivePower = 0
               \/ zones[zone].activeEnergy = 0
               \/ res.ProcessTotalCPUTimeDelta = 0
            THEN newProcess(zones).Zones[zone]
            ELSE LET activeEnergy == Scale(zones[zone].activeEnergy,
                                           res.Running[pid], res.ProcessTotalCPUTimeDelta)
                     absoluteEnergy ==
                        IF pid \in DOMAIN prev.Processes
                           /\ zone \in DOMAIN prev.Processes[pid].Zones
                        THEN activeEnergy + prev.Processes[pid].Zones[zone].EnergyTotal
                        ELSE activeEnergy
                 IN  Usage(Scale(zones[zone].ActivePower,
                                 res.Running[pid], res.ProcessTotalCPUTimeDelta),
                           absoluteEnergy)]]

\* The attribution with the utilization taken as a percentage of the device
\* instead of a share of the reported total.
calculateProcessGPUPowerPercent(pids, prev, gpuZones, util) ==
    [pid \in pids |->
        [gpuID \in {g \in DOMAIN util \cap DOMAIN gpuZones : pid \in DOMAIN util[g]} |->
            LET activeEnergy == Scale(gpuZones[gpuID].activeEnergy, util[gpuID][pid], 100)
                absoluteEnergy ==
                    IF pid \in DOMAIN prev.Processes
                       /\ gpuID \in DOMAIN prev.Processes[pid].GPUZones
                    THEN activeEnergy + prev.Processes[pid].GPUZones[gpuID].EnergyTotal
                    ELSE activeEnergy
            IN  Usage(Scale(gpuZones[gpuID].ActivePower, util[gpuID][pid], 100),
                      absoluteEnergy)]]

\* ---------------------------------- process.go: calculateProcessGPUPower
\* Only a process for which ProcessUtilization succeeds gets an entry.
calculateProcessGPUPower(pids, prev, gpuZones, util) ==
    [pid \in pids |->
        [gpuID \in {g \in DOMAIN util \cap DOMAIN gpuZones : pid \in DOMAIN util[g]} |->
            LET totalSMUtil == SumOver(DOMAIN util[gpuID] \cap pids, util[gpuID])
                power == IF totalSMUtil > 0
                         THEN Scale(gpuZones[gpuID].ActivePower, util[gpuID][pid], totalSMUtil)
                         ELSE 0
                activeEnergy == IF totalSMUtil > 0
                                THEN Scale(gpuZones[gpuID].activeEnergy,
                                           util[gpuID][pid], totalSMUtil)
                                ELSE 0
                absoluteEnergy ==
                    IF pid \in DOMAIN prev.Processes
                       /\ gpuID \in DOMAIN prev.Processes[pid].GPUZones
                    THEN activeEnergy + prev.Processes[pid].GPUZones[gpuID].EnergyTotal
                    ELSE activeEnergy
            IN  Usage(power, absoluteEnergy)]]

\* ------------------------------------------------------ terminated tracker
\* The energy the tracker ranks a workload by: its primary-zone EnergyTotal.
TrackerEnergy(proc) ==
    IF ZoneOrder[1] \in DOMAIN proc.Zones THEN proc.Zones[ZoneOrder[1]].EnergyTotal ELSE 0

\* Tracked pid with the lowest energy.
TrackerLowest(tr) ==
    CHOOSE p \in DOMAIN tr :
        \A q \in DOMAIN tr : TrackerEnergy(tr[p]) <= TrackerEnergy(tr[q])

\* Add(item) that never evicts: an item offered to a full tracker is dropped.
TrackerAddNoEvict(tr, pid, proc, capacity, threshold) ==
    IF capacity = 0 \/ TrackerEnergy(proc) < threshold \/ pid \in DOMAIN tr
    THEN tr
    ELSE IF capacity < 0 \/ Cardinality(DOMAIN tr) < capacity
         THEN tr @@ (pid :> proc)
         ELSE tr

\* Add(item): disabled at capacity 0, below the threshold never tracked, a
\* tracked id is not inserted again, the lowest is evicted when full.
TrackerAdd(tr, pid, proc, capacity, threshold) ==
    IF capacity = 0 \/ TrackerEnergy(proc) < threshold \/ pid \in DOMAIN tr
    THEN tr
    ELSE IF capacity < 0 \/ Cardinality(DOMAIN tr) < capacity
         THEN tr @@ (pid :> proc)
         ELSE LET low == TrackerLowest(tr)
              IN  IF TrackerEnergy(proc) > TrackerEnergy(tr[low])
                  THEN [q \in (DOMAIN tr \ {low}) \cup {pid} |->
                            IF q = pid THEN proc ELSE tr[q]]
                  ELSE tr

\* Clone(): a copy of the process record.
Clone(proc) == [Zones |-> proc.Zones, GPUZones |-> proc.GPUZones]

\* The terminated loop taking every listed pid it still has a record of, in
\* the previous snapshot's running or terminated processes.
RECURSIVE AddTerminatedListed(_, _, _, _, _)
AddTerminatedListed(tr, terminated, prev, capacity, threshold) ==
    IF terminated = {} THEN tr
    ELSE LET pid == CHOOSE p \in terminated : TRUE
             next == IF pid \in DOMAIN prev.Processes
                     THEN TrackerAdd(tr, pid, Clone(prev.Processes[pid]), capacity, threshold)
                     ELSE IF pid \in DOMAIN prev.TerminatedProcesses
                          THEN TrackerAdd(tr, pid, Clone(prev.TerminatedProcesses[pid]),
                                          capacity, threshold)
                          ELSE tr
         IN  AddTerminatedListed(next, terminated \ {pid}, prev, capacity, threshold)

\* The terminated loop with the lookup in the previous snapshot inverted:
\* a pid found there is skipped.
AddTerminatedInverted(tr, terminated, prev, capacity, threshold) == tr

\* process.go: the terminated loop of calculateProcessPower. A terminated
\* pid is added only if the previous snapshot holds it as a running process.
RECURSIVE AddTerminated(_, _, _, _, _)
AddTerminated(tr, terminated, prev, capacity, threshold) ==
    IF terminated = {} THEN tr
    ELSE LET pid == CHOOSE p \in terminated : TRUE
             next == IF pid \in DOMAIN prev.Processes
                     THEN TrackerAdd(tr, pid, Clone(prev.Processes[pid]), capacity, threshold)
                     ELSE tr
         IN  AddTerminated(next, terminated \ {pid}, prev, capacity, threshold)

\* process.go: the tracker is not cleared although the snapshot was exported.
ClearIfExportedNever(tr, wasExported) == tr

\* process.go: the tracker is cleared when the snapshot has been exported.
ClearIfExported(tr, wasExported) == IF wasExported THEN NoProcesses ELSE tr

\* ---------------------------------------------------------------- informer
Resources(run, term, total, ratio) ==
    [Running |-> run, Terminated |-> term,
     ProcessTotalCPUTimeDelta |-> total, CPUUsageRatio |-> ratio]

\* What a Refresh may report after the view `res`: no pid comes back once it
\* terminated, and a pid that stopped running is reported terminated.
RefreshOK(res, gone, run, term) ==
    /\ DOMAIN run \cap gone = {}
    /\ DOMAIN run \cap term = {}
    /\ (DOMAIN res.Running \ DOMAIN run) \subseteq term
    /\ term \subseteq (DOMAIN res.Running \cup gone)

\* The GPU counters only grow.
CounterOK(old, new) ==
    /\ DOMAIN new = DOMAIN old
    /\ \A g \in DOMAIN old : old[g] <= new[g] /\ new[g] <= MaxGPUEnergy

\* What Energy() of each GPU zone returns: the counter, or an error.
GPUReads(counter, failing) ==
    [g \in DOMAIN counter |-> IF g \in failing THEN ReadErr ELSE counter[g]]

\* The cumulative totals stay below the cap.
WithinCap(node) ==
    /\ \A z \in DOMAIN node.Zones :
          node.Zones[z].ActiveEnergyTotal + node.Zones[z].IdleEnergyTotal <= MaxEnergyTotal
    /\ \A g \in DOMAIN node.GPUZones :
          node.GPUZones[g].ActiveEnergyTotal <= MaxEnergyTotal

\* ---------------------------------------------------------- collection loop
Assemble(ratio, zones, gpuZones, procZones, procGPU, terminated) ==
    [Node |-> [UsageRatio |-> ratio, Zones |-> zones, GPUZones |-> gpuZones],
     Processes |-> [pid \in DOMAIN procZones |->
                        [Zones |-> procZones[pid], GPUZones |-> procGPU[pid]]],
     TerminatedProcesses |-> terminated]

\* firstReading: firstNodeRead, firstProcessRead, publish.
FirstRead(ratio, reads, run, total, counter, failing, util) ==
    /\ published = 0
    /\ RefreshOK(resources, dead, run, {})
    /\ CounterOK(gpuEnergy, counter)
    /\ LET res == Resources(run, {}, total, ratio)
           zones == firstNodeZones(reads, ratio)
           greads == GPUReads(counter, failing)
           gpuZones == IF hasGPU THEN initNodeGPUData(greads) ELSE NoZones
           procZones == firstProcessZones(zones, res)
           procGPU == IF hasGPU
                      THEN initProcessGPUPower(DOMAIN run, gpuZones, util)
                      ELSE [pid \in DOMAIN run |-> NoUsage]
           new == Assemble(ratio, zones, gpuZones, procZones, procGPU, NoProcesses)
       IN  /\ WithinCap(new.Node)
           /\ snapshot' = new
           /\ prevSnapshot' = snapshot
           /\ resources' = res
           /\ lastRead' = [zones |-> reads, gpus |-> greads,
                           devicePower |-> [g \in DOMAIN greads |-> NoPower],
                           timeDiff |-> 0, exported |-> FALSE]
    /\ published' = 1
    /\ gpuEnergy' = counter
    /\ gpuUtil' = util
    /\ exported' = FALSE
    /\ curFetched' = FALSE
    /\ UNCHANGED <<tracker, dead, cfgVars, edVars, expHeld, expPc, exportCount, clearedUnseen>>

\* One steady-state tick: Refresh, calculateNodePower, calculateProcessPower,
\* publish.  timeDiff is the whole number of seconds since the last snapshot.
Tick(ratio, timeDiff, reads, run, total, term, counter, failing, devicePower, util) ==
    /\ published >= 1
    /\ RefreshOK(resources, dead, run, term)
    /\ CounterOK(gpuEnergy, counter)
    /\ LET res == Resources(run, term, total, ratio)
           prev == snapshot
           zones == calculateNodeZones(prev.Node.Zones, reads, ratio, timeDiff)
           greads == GPUReads(counter, failing)
           gpuZones == IF hasGPU
                       THEN collectNodeGPUData(prev.Node.GPUZones, greads, devicePower, timeDiff)
                       ELSE NoZones
           cleared == ClearIfExported(tracker, exported)
           tracked == AddTerminated(cleared, term, prev, maxTerminated, minEnergy)
           procZones == calculateProcessZones(prev, zones, res)
           procGPU == IF hasGPU
                      THEN calculateProcessGPUPower(DOMAIN run, prev, gpuZones, util)
                      ELSE [pid \in DOMAIN run |-> NoUsage]
           new == Assemble(ratio, zones, gpuZones, procZones, procGPU, tracked)
       IN  /\ WithinCap(new.Node)
           /\ snapshot' = new
           /\ prevSnapshot' = prev
           /\ tracker' = tracked
           /\ resources' = res
           /\ lastRead' = [zones |-> reads, gpus |-> greads,
                           devicePower |-> devicePower, timeDiff |-> timeDiff,
                           exported |-> exported]
           /\ clearedUnseen' = clearedUnseen \cup
                 {p \in DOMAIN tracker \ DOMAIN cleared : exportCount[p] = 0}
    /\ published' = 2
    /\ dead' = dead \cup term
    /\ gpuEnergy' = counter
    /\ gpuUtil' = util
    /\ exported' = FALSE
    /\ curFetched' = FALSE
    /\ UNCHANGED <<cfgVars, edVars, expHeld, expPc, exportCount>>

\* ----------------------------------------------------------------- exporter
\* The exporter takes Current() and encodes it.
ExporterCurrent ==
    /\ published >= 1
    /\ expPc = "idle"
    /\ expHeld' = DOMAIN snapshot.TerminatedProcesses
    /\ expPc' = "encoding"
    /\ exportCount' = [p \in PIDs |->
                          IF p \in DOMAIN snapshot.TerminatedProcesses /\ ~curFetched
                          THEN Min(2, exportCount[p] + 1)
                          ELSE exportCount[p]]
    /\ curFetched' = TRUE
    /\ UNCHANGED <<pmVars, cfgVars, envVars, histVars, edVars, clearedUnseen, loopVars>>

\* MarkExported(): pm.exported.Store(true).
MarkExported ==
    /\ expPc = "encoding"
    /\ exported' = TRUE
    /\ expPc' = "idle"
    /\ UNCHANGED <<snapshot, published, tracker, cfgVars, envVars, histVars, edVars, loopVars,
                   expHeld, curFetched, exportCount, clearedUnseen>>

\* ---------------------------------------------------------- readers, ticks
Readers == {1, 2}

\* What a call of Current() returned: the snapshot and its sequence number,
\* with the sequence number of the reader's call before it and the loop state
\* at the time of the call.
Observed(number, before, snap, state) ==
    [seen |-> number, before |-> before, snapshot |-> snap, at |-> state]

\* The outcome of a tick, with the outcome of the tick before it and the loop
\* state, the current snapshot and its sequence number as they were when the
\* tick began.
TickRecord(outcome, previous, state, number, snap) ==
    [outcome |-> outcome, previous |-> previous, state |-> state, seq |-> number,
     snapshot |-> snap]

\* ------------------------------------------------------------ initial state
\* The monitor after construction, with the given configuration.
InitPM(capacity, threshold, gpu, gpus) ==
    /\ snapshot = NewSnapshot
    /\ prevSnapshot = NewSnapshot
    /\ published = 0
    /\ tracker = NoProcesses
    /\ exported = FALSE
    /\ maxTerminated = capacity
    /\ minEnergy = threshold
    /\ hasGPU = gpu
    /\ resources = Resources([p \in {} |-> 0], {}, 0, 0)
    /\ dead = {}
    /\ gpuEnergy = [g \in gpus |-> 0]
    /\ gpuUtil = [g \in gpus |-> [p \in {} |-> 0]]
    /\ lastRead = [zones |-> [z \in {} |-> 0], gpus |-> [g \in {} |-> 0],
                   devicePower |-> [g \in {} |-> 0], timeDiff |-> 0, exported |-> FALSE]
    /\ expHeld = {}
    /\ expPc = "idle"
    /\ curFetched = FALSE
    /\ exportCount = [p \in PIDs |-> 0]
    /\ clearedUnseen = {}
    /\ loopState = "Idle"
    /\ seq = 0
    /\ reader = [r \in Readers |-> Observed(0, 0, NewSnapshot, "Idle")]
    /\ lastTick = TickRecord("none", "none", "Idle", 0, NewSnapshot)

\* ------------------------------------------------------------ input domains
\* The running processes with their CPU-time deltas.
Runs(pids, deltas) == UNION {[S -> deltas] : S \in SUBSET pids}

\* ProcessTotalCPUTimeDelta: the sum of the processes' CPU-time deltas.
Totals(run) == {SumOver(DOMAIN run, run)}

NoGPU == [g \in {} |-> 0]
NoUtil == [g \in {} |-> [p \in {} |-> 0]]
IdleDelta == [current |-> 0, previous |-> 0, maxJoules |-> 0]

\* ------------------------------------------- specification: energy delta
\* Readings of a counter with a wrap value stay within it; without a wrap
\* value (maxJoules = 0) they are any Energy.
DeltaInputs ==
    UNION {{[current |-> c, previous |-> p, maxJoules |-> m] :
                c \in 0..(IF m = 0 THEN EnergyMod - 1 ELSE m),
                p \in 0..(IF m = 0 THEN EnergyMod - 1 ELSE m)} :
           m \in {0, ZoneMax, GPUMaxEnergy}}

InitDelta ==
    /\ InitPM(-1, 0, FALSE, {})
    /\ edIn \in DeltaInputs
    /\ edOut = NotComputed

ApplyDelta ==
    /\ edOut = NotComputed
    /\ edOut' = calculateEnergyDelta(edIn.current, edIn.previous, edIn.maxJoules)
    /\ UNCHANGED <<pmVars, cfgVars, envVars, histVars, expVars, edIn, loopVars>>

SpecDelta == InitDelta /\ [][ApplyDelta]_vars

\* --------------------------------- specification: CPU attribution, one zone
CPUReads == [{"package"} -> 0..ZoneMax]
CPUPids == {1, 2}
CPUDeltas == {0, 1}

InitCPU ==
    /\ InitPM(-1, 0, FALSE, {})
    /\ edIn = IdleDelta
    /\ edOut = NotComputed

FirstReadCPU ==
    /\ \E ratio \in 0..RatioDen, reads \in CPUReads, run \in Runs(CPUPids, CPUDeltas) :
           \E total \in Totals(run) :
               FirstRead(ratio, reads, run, total, NoGPU, {}, NoUtil)
    /\ UNCHANGED loopVars

TickCPU ==
    /\ \E ratio \in 0..RatioDen, reads \in CPUReads, run \in Runs(CPUPids, CPUDeltas) :
           \E total \in Totals(run) :
               Tick(ratio, 1, reads, run, total,
                    DOMAIN resources.Running \ DOMAIN run, NoGPU, {}, NoGPU, NoUtil)
    /\ UNCHANGED loopVars

NextCPU == FirstReadCPU \/ TickCPU

SpecCPU == InitCPU /\ [][NextCPU]_vars

\* C1: for every process running in two successive published snapshots and
\* every CPU zone present in both, EnergyTotal in the later snapshot is at
\* least EnergyTotal in the earlier one.
C1_EnergyTotalNeverDecreases ==
    published = 2 =>
        \A pid \in DOMAIN prevSnapshot.Processes \cap DOMAIN snapshot.Processes :
            \A zone \in DOMAIN prevSnapshot.Processes[pid].Zones
                        \cap DOMAIN snapshot.Processes[pid].Zones :
                snapshot.Processes[pid].Zones[zone].EnergyTotal
                    >= prevSnapshot.Processes[pid].Zones[zone].EnergyTotal

\* EnergyTotal of a process in a zone of a snapshot, 0 when it is not there.
EnergyIn(snap, pid, zone) ==
    IF pid \in DOMAIN snap.Processes /\ zone \in DOMAIN snap.Processes[pid].Zones
    THEN snap.Processes[pid].Zones[zone].EnergyTotal
    ELSE 0

\* Energy attributed to the running processes in the last tick.
Attributed(zone) ==
    SumOver(DOMAIN snapshot.Processes,
            [pid \in DOMAIN snapshot.Processes |->
                EnergyIn(snapshot, pid, zone) - EnergyIn(prevSnapshot, pid, zone)])

\* C2: after a steady-state tick with at least one running process, for every
\* CPU zone whose interval delta is non-zero, the energy attributed to the
\* running processes is at most the node's activeEnergy and falls short of it
\* by less than the number of running processes, provided the processes'
\* CPU-time deltas sum to the node's total CPU-time delta.
C2_AttributedMatchesActiveEnergy ==
    (/\ published = 2
     /\ DOMAIN snapshot.Processes # {}
     /\ SumOver(DOMAIN resources.Running, resources.Running)
            = resources.ProcessTotalCPUTimeDelta)
    => \A zone \in DOMAIN snapshot.Node.Zones \cap DOMAIN prevSnapshot.Node.Zones :
          calculateEnergyDelta(snapshot.Node.Zones[zone].EnergyTotal,
                               prevSnapshot.Node.Zones[zone].EnergyTotal, ZoneMax) # 0
          => /\ Attributed(zone) <= snapshot.Node.Zones[zone].activeEnergy
             /\ snapshot.Node.Zones[zone].activeEnergy - Attributed(zone)
                    < Cardinality(DOMAIN snapshot.Processes)

\* C9: on the first read every process has Power 0 in every CPU zone and its
\* EnergyTotal is its CPU-time share of the node zone's active energy whenever
\* the node's total CPU-time delta and the zone's active energy are non-zero.
C9_FirstReadEnergyShare ==
    published = 1 =>
        \A pid \in DOMAIN snapshot.Processes :
            \A zone \in DOMAIN snapshot.Node.Zones :
                /\ snapshot.Processes[pid].Zones[zone].Power = 0
                /\ (/\ resources.ProcessTotalCPUTimeDelta # 0
                    /\ snapshot.Node.Zones[zone].activeEnergy # 0)
                   => snapshot.Processes[pid].Zones[zone].EnergyTotal
                        = Scale(snapshot.Node.Zones[zone].activeEnergy,
                                resources.Running[pid],
                                resources.ProcessTotalCPUTimeDelta)

GPUPids == {1, 2}
GPUIds == {0}
\* SM utilization a process reports.
SMUtils == {0, 1}
\* DevicePower readings; each divides evenly among the reporting processes.
GPUPowers == {0, 2}
IdleCPUReads == [{"package"} -> {0}]

\* ProcessUtilization: per GPU, the utilization of the processes it knows.
Utils(pids) == [GPUIds -> UNION {[S -> SMUtils] : S \in SUBSET pids}]

InitGPU ==
    /\ InitPM(-1, 0, TRUE, GPUIds)
    /\ edIn = IdleDelta
    /\ edOut = NotComputed

FirstReadGPU ==
    /\ \E reads \in IdleCPUReads, run \in Runs(GPUPids, {0}),
          counter \in [GPUIds -> 0..MaxGPUEnergy] :
           \E util \in Utils(DOMAIN run) :
               FirstRead(0, reads, run, 0, counter, {}, util)
    /\ UNCHANGED loopVars

TickGPU ==
    /\ \E reads \in IdleCPUReads, run \in Runs(GPUPids, {0}),
          counter \in [GPUIds -> 0..MaxGPUEnergy], devicePower \in [GPUIds -> GPUPowers] :
           \E util \in Utils(DOMAIN run) :
               Tick(0, 1, reads, run, 0, DOMAIN resources.Running \ DOMAIN run,
                    counter, {}, devicePower, util)
    /\ UNCHANGED loopVars

NextGPU == FirstReadGPU \/ TickGPU

SpecGPU == InitGPU /\ [][NextGPU]_vars

\* Processes of the snapshot for which the meter reports utilization on g.
Reporting(g) == DOMAIN snapshot.Processes \cap DOMAIN gpuUtil[g]

\* Sum over the snapshot's processes of a field of their usage on GPU g.
ProcessGPUSum(g, field) ==
    SumOver(DOMAIN snapshot.Processes,
            [pid \in DOMAIN snapshot.Processes |->
                IF g \in DOMAIN snapshot.Processes[pid].GPUZones
                THEN snapshot.Processes[pid].GPUZones[g][field]
                ELSE 0])

\* C3: after a tick, for every GPU for which at least one running process
\* reports SM utilization, the processes' GPU power sums to the node's GPU
\* power exactly.
C3_ProcessGPUPowerSumsToNode ==
    published = 2 =>
        \A g \in DOMAIN snapshot.Node.GPUZones :
            Reporting(g) # {}
                => ProcessGPUSum(g, "Power") = snapshot.Node.GPUZones[g].Power

\* C10: on the first read, for every GPU with a non-zero initial counter
\* reading and a process reporting non-zero SM utilization, each reporting
\* process has Power 0 and an EnergyTotal equal to its SM-utilization share of
\* the node GPU's initial energy, so the shares sum to it up to rounding.
C10_FirstReadGPUEnergyShare ==
    published = 1 =>
        \A g \in DOMAIN snapshot.Node.GPUZones :
            LET totalSMUtil == SumOver(Reporting(g), gpuUtil[g])
                initial == snapshot.Node.GPUZones[g].EnergyTotal
            IN  (initial # 0 /\ totalSMUtil # 0)
                => /\ \A pid \in Reporting(g) :
                        /\ snapshot.Processes[pid].GPUZones[g].Power = 0
                        /\ snapshot.Processes[pid].GPUZones[g].EnergyTotal
                              = Scale(initial, gpuUtil[g][pid], totalSMUtil)
                   /\ ProcessGPUSum(g, "EnergyTotal") <= initial
                   /\ initial - ProcessGPUSum(g, "EnergyTotal") < Cardinality(Reporting(g))

\* -------------------------- specification: zone read failures, two CPU zones
\* What Energy() of each CPU zone returns: a reading, or an error.
ZoneReads ==
    {[package |-> a, dram |-> b] : a \in {ReadErr} \cup 0..ZoneMax, b \in {ReadErr, 0, 1}}
ZoneRatios == {1}
ZoneTimeDiffs == {1, 2}
ZoneCounters == [GPUIds -> {0, 1}]
ZonePowers == [GPUIds -> {2}]
NoRun == [p \in {} |-> 0]

InitZones ==
    /\ InitPM(-1, 0, TRUE, GPUIds)
    /\ edIn = IdleDelta
    /\ edOut = NotComputed

FirstReadZones ==
    /\ \E ratio \in ZoneRatios, reads \in ZoneReads, counter \in ZoneCounters :
           FirstRead(ratio, reads, NoRun, 0, counter, {}, [g \in GPUIds |-> NoRun])
    /\ UNCHANGED loopVars

TickZones ==
    /\ \E ratio \in ZoneRatios, timeDiff \in ZoneTimeDiffs, reads \in ZoneReads,
          counter \in ZoneCounters, devicePower \in ZonePowers :
           Tick(ratio, timeDiff, reads, NoRun, 0, {}, counter, {}, devicePower,
                [g \in GPUIds |-> NoRun])
    /\ UNCHANGED loopVars

NextZones == FirstReadZones \/ TickZones

SpecZones == InitZones /\ [][NextZones]_vars

\* Zones whose read failed in the last tick.
FailedZones == {z \in DOMAIN lastRead.zones : lastRead.zones[z] = ReadErr}

TrackPids == {1, 2}
TrackCapacities == {-1, 0, 1}
TrackThresholds == {0, 1}
TrackReads == [{"package"} -> {0, 1}]
TrackCounter == [g \in GPUIds |-> 0]
TrackPower == [g \in GPUIds |-> 2]

\* Every running process reports SM utilization 1 on every GPU.
TrackUtil(run) == [g \in GPUIds |-> [p \in DOMAIN run |-> 1]]

InitTrack ==
    /\ \E capacity \in TrackCapacities, threshold \in TrackThresholds :
          InitPM(capacity, threshold, TRUE, GPUIds)
    /\ edIn = IdleDelta
    /\ edOut = NotComputed

FirstReadTrack ==
    /\ \E reads \in TrackReads, run \in Runs(TrackPids, {1}) :
           \E total \in Totals(run) :
               FirstRead(RatioDen, reads, run, total, TrackCounter, {}, TrackUtil(run))
    /\ UNCHANGED loopVars

\* The informer reports the processes that stopped and may report again one
\* it reported before.
TickTrack ==
    /\ \E reads \in TrackReads, run \in Runs(TrackPids, {1}), again \in {{}, dead} :
           \E total \in Totals(run) :
               Tick(RatioDen, 1, reads, run, total,
                    (DOMAIN resources.Running \ DOMAIN run) \cup again,
                    TrackCounter, {}, TrackPower, TrackUtil(run))
    /\ UNCHANGED loopVars

NextTrack == FirstReadTrack \/ TickTrack \/ ExporterCurrent \/ MarkExported

SpecTrack == InitTrack /\ [][NextTrack]_vars

\* C5: with unbounded retention and no threshold, under every interleaving of
\* ticks with the exporter, a terminated process is never cleared from the
\* tracker before an exported snapshot contained it, and it is not contained
\* in two different exported snapshots.
C5_TerminatedExportedExactlyOnce ==
    (maxTerminated < 0 /\ minEnergy = 0) =>
        /\ clearedUnseen = {}
        /\ \A pid \in PIDs : exportCount[pid] <= 1

\* C6: when MarkExported() was called after a snapshot was published and
\* before the next tick, the snapshot of that tick holds in
\* TerminatedProcesses none of the previous snapshot's entries, only
\* processes reported terminated in that tick.
C6_ClearedAfterMarkExported ==
    (published = 2 /\ lastRead.exported) =>
        /\ DOMAIN snapshot.TerminatedProcesses
              \cap DOMAIN prevSnapshot.TerminatedProcesses = {}
        /\ DOMAIN snapshot.TerminatedProcesses \subseteq resources.Terminated

\* A tick after MarkExported() dropped earlier entries and holds a new one.
C6_ClearedAndRefilled ==
    /\ published = 2
    /\ lastRead.exported
    /\ DOMAIN prevSnapshot.TerminatedProcesses # {}
    /\ DOMAIN snapshot.TerminatedProcesses # {}

\* Number of tracked processes the last tick started from.
TrackedBefore ==
    IF lastRead.exported THEN 0
    ELSE Cardinality(DOMAIN prevSnapshot.TerminatedProcesses)

\* Processes of the previous snapshot reported terminated in the last tick.
JustTerminated == resources.Terminated \cap DOMAIN prevSnapshot.Processes

NodeReads == [{"package"} -> 0..ZoneMax]
NodeTimeDiffs == {1, 2}
NodeCounters == [GPUIds -> {0, 1}]
\* Largest delta, and the denominators, the split is applied to on its own.
SplitMax == 12
SplitDens == {1, 2, 3, 5}

\* A delta and a usage ratio n / d; among them delta 10 with ratio 2/5, the
\* delta 1000 with ratio 0.4 in units of 100.
SplitInputs ==
    {[delta |-> x, n |-> n, d |-> d] :
        x \in 0..SplitMax, n \in 0..5, d \in SplitDens}

\* The split has not been computed yet.
SplitPending == [activeEnergy |-> NotComputed, idleEnergy |-> NotComputed]

InitNode ==
    /\ InitPM(-1, 0, TRUE, GPUIds)
    /\ edIn \in {IdleDelta} \cup {i \in SplitInputs : i.n <= i.d}
    /\ edOut = SplitPending

ApplySplit ==
    /\ edIn # IdleDelta
    /\ edOut = SplitPending
    /\ edOut' = SplitDelta(edIn.delta, edIn.n, edIn.d)
    /\ UNCHANGED <<pmVars, cfgVars, envVars, histVars, expVars, edIn, loopVars>>

FirstReadNode ==
    /\ edIn = IdleDelta
    /\ \E ratio \in 0..RatioDen, reads \in NodeReads, counter \in NodeCounters :
          FirstRead(ratio, reads, NoRun, 0, counter, {}, [g \in GPUIds |-> NoRun])
    /\ UNCHANGED loopVars

TickNode ==
    /\ edIn = IdleDelta
    /\ \E ratio \in 0..RatioDen, timeDiff \in NodeTimeDiffs, reads \in NodeReads,
          counter \in NodeCounters, devicePower \in [GPUIds -> GPUPowers] :
          Tick(ratio, timeDiff, reads, NoRun, 0, {}, counter, {}, devicePower,
               [g \in GPUIds |-> NoRun])
    /\ UNCHANGED loopVars

NextNode == ApplySplit \/ FirstReadNode \/ TickNode

SpecNode == InitNode /\ [][NextNode]_vars

\* The delta of a zone between two readings, as a number.
ZoneDelta(current, previous) ==
    IF current >= previous THEN current - previous ELSE (ZoneMax - previous) + current

\* C11: in every steady-state tick, for every CPU zone with a previous
\* reading and a usage ratio in [0, 1], activeEnergy is the truncated product
\* of the delta and the ratio, ActiveEnergyTotal grows by it and
\* IdleEnergyTotal by the rest, so both together grow by the delta; the split
\* on its own gives 400 and 600 for delta 1000 and ratio 0.4 (here in units
\* of 100: 4 and 6 for delta 10).
C11_DeltaSplitIntoActiveAndIdle ==
    /\ (edIn # IdleDelta /\ edOut # SplitPending) =>
          /\ edOut.activeEnergy = (edIn.delta * edIn.n) \div edIn.d
          /\ edOut.activeEnergy + edOut.idleEnergy = edIn.delta
          /\ edIn = [delta |-> 10, n |-> 2, d |-> 5]
                => edOut = [activeEnergy |-> 4, idleEnergy |-> 6]
    /\ published = 2 =>
          \A z \in DOMAIN snapshot.Node.Zones \cap DOMAIN prevSnapshot.Node.Zones :
             LET new == snapshot.Node.Zones[z]
                 old == prevSnapshot.Node.Zones[z]
                 delta == ZoneDelta(new.EnergyTotal, old.EnergyTotal)
             IN  /\ new.activeEnergy = (delta * snapshot.Node.UsageRatio) \div RatioDen
                 /\ new.ActiveEnergyTotal = old.ActiveEnergyTotal + new.activeEnergy
                 /\ new.IdleEnergyTotal = old.IdleEnergyTotal + (delta - new.activeEnergy)
                 /\ (new.ActiveEnergyTotal + new.IdleEnergyTotal)
                       - (old.ActiveEnergyTotal + old.IdleEnergyTotal) = delta

\* A tick split a delta of 2 by the ratio 1/2 into 1 active and 1 idle.
C11_DeltaOfTwoHalved ==
    /\ published = 2
    /\ "package" \in DOMAIN prevSnapshot.Node.Zones
    /\ snapshot.Node.Zones["package"].EnergyTotal
          = prevSnapshot.Node.Zones["package"].EnergyTotal + 2
    /\ snapshot.Node.Zones["package"].activeEnergy = 1
    /\ snapshot.Node.Zones["package"].IdleEnergyTotal
          = prevSnapshot.Node.Zones["package"].IdleEnergyTotal + 1

\* A process's share Ri x amount of the last tick, truncated; Ri is zero
\* when the node consumed no CPU time.
CPUShare(pid, amount) ==
    IF resources.ProcessTotalCPUTimeDelta = 0 THEN 0
    ELSE (amount * resources.Running[pid]) \div resources.ProcessTotalCPUTimeDelta

\* C12: in a steady-state tick, for every running process and CPU zone with
\* non-zero node active energy, the process's Power is its CPU-time share of
\* the zone's ActivePower and its EnergyTotal is its EnergyTotal in the
\* previous snapshot (0 if it is new) plus its CPU-time share of the zone's
\* active energy.
C12_ProcessShareOfZone ==
    published = 2 =>
        \A pid \in DOMAIN snapshot.Processes :
            \A z \in DOMAIN snapshot.Node.Zones :
                snapshot.Node.Zones[z].activeEnergy # 0 =>
                    /\ snapshot.Processes[pid].Zones[z].Power
                          = CPUShare(pid, snapshot.Node.Zones[z].ActivePower)
                    /\ snapshot.Processes[pid].Zones[z].EnergyTotal
                          = EnergyIn(prevSnapshot, pid, z)
                              + CPUShare(pid, snapshot.Node.Zones[z].activeEnergy)

\* ------------------------ specification: GPU attribution of one tick alone
SharePids == {1, 2}
ShareUtils == {0, 1, 2, 3}
SharePowers == {0, 3, 5}
ShareEnergies == {0, 1, 4}
SharePrevEnergies == {0, 2}

\* Utilization per reporting process, node GPU active power and active
\* energy, and the GPU EnergyTotal of the processes the previous snapshot
\* holds; the last is the time-sliced case: 10 and 15 percent with 200 W.
ShareInputs ==
    {[util |-> u, power |-> w, energy |-> e, prev |-> q] :
        u \in UNION {[S -> ShareUtils] : S \in SUBSET SharePids},
        w \in SharePowers, e \in ShareEnergies,
        q \in UNION {[S -> SharePrevEnergies] : S \in SUBSET SharePids}} \cup
    {[util |-> (1 :> 10) @@ (2 :> 15), power |-> 200, energy |-> 4000, prev |-> NoRun]}

\* The node GPU zones and the previous snapshot the inputs stand for.
ShareGPUZones(in) ==
    [g \in GPUIds |-> NodeUsage(in.energy, in.energy, in.energy, 0, in.power, in.power, 0)]

SharePrev(in) ==
    [NewSnapshot EXCEPT !.Processes =
        [pid \in DOMAIN in.prev |->
            [Zones |-> NoUsage, GPUZones |-> [g \in GPUIds |-> Usage(0, in.prev[pid])]]]]

InitShare ==
    /\ InitPM(-1, 0, TRUE, GPUIds)
    /\ edIn \in ShareInputs
    /\ edOut = NoRun

ApplyShare ==
    /\ edOut = NoRun
    /\ edOut' = calculateProcessGPUPower(SharePids, SharePrev(edIn), ShareGPUZones(edIn),
                                         [g \in GPUIds |-> edIn.util])
    /\ UNCHANGED <<pmVars, cfgVars, envVars, histVars, expVars, edIn, loopVars>>

SpecShare == InitShare /\ [][ApplyShare]_vars

\* GPU EnergyTotal the previous snapshot holds for a process, 0 if none.
SharePrevEnergy(pid) == IF pid \in DOMAIN edIn.prev THEN edIn.prev[pid] ELSE 0

PowerConserved(usage) ==
    /\ usage.Power = usage.ActivePower + usage.IdlePower
    /\ usage.ActivePower >= 0 /\ usage.ActivePower <= usage.Power
    /\ usage.IdlePower >= 0 /\ usage.IdlePower <= usage.Power

\* C14: in every published snapshot, for every node CPU zone and every GPU,
\* Power = ActivePower + IdlePower and neither part exceeds Power.
C14_NodePowerConserved ==
    published >= 1 =>
        /\ \A z \in DOMAIN snapshot.Node.Zones : PowerConserved(snapshot.Node.Zones[z])
        /\ \A g \in DOMAIN snapshot.Node.GPUZones : PowerConserved(snapshot.Node.GPUZones[g])

\* A tick measured CPU power 2 split into 1 active and 1 idle, and GPU power.
C14_PowerSplitInHalves ==
    /\ published = 2
    /\ "package" \in DOMAIN snapshot.Node.Zones
    /\ snapshot.Node.Zones["package"].Power = 2
    /\ snapshot.Node.Zones["package"].ActivePower = 1
    /\ snapshot.Node.Zones["package"].IdlePower = 1
    /\ snapshot.Node.GPUZones[0].Power = 2

\* C15: for every process running in two successive snapshots and every GPU
\* for which it has a usage entry in the earlier one, the later snapshot has
\* an entry for that GPU whose EnergyTotal is at least the earlier value, also
\* when the GPU source reports no utilization for the process in the later
\* tick.
C15_GPUEnergyTotalNeverDecreases ==
    published = 2 =>
        \A pid \in DOMAIN prevSnapshot.Processes \cap DOMAIN snapshot.Processes :
            \A g \in DOMAIN prevSnapshot.Processes[pid].GPUZones :
                /\ g \in DOMAIN snapshot.Processes[pid].GPUZones
                /\ snapshot.Processes[pid].GPUZones[g].EnergyTotal
                      >= prevSnapshot.Processes[pid].GPUZones[g].EnergyTotal

\* ------------------------------------ container.go / pod.go: GPU aggregation
\* Sum of one field of the GPU usage the members hold for GPU g; a member
\* without an entry for g is not visited and so adds nothing.
RECURSIVE SumGPUField(_, _, _, _)
SumGPUField(members, zones, g, field) ==
    IF members = {} THEN 0
    ELSE LET m == CHOOSE x \in members : TRUE
             own == IF g \in DOMAIN zones[m] THEN zones[m][g][field] ELSE 0
         IN  own + SumGPUField(members \ {m}, zones, g, field)

\* The mutant keeps only the last member's usage instead of adding to it.
AggregateGPUZonesOverwrite(members, zones) ==
    LET gpus == UNION {DOMAIN zones[m] : m \in members}
        last(g) == CHOOSE m \in members : g \in DOMAIN zones[m]
    IN  [g \in gpus |-> zones[last(g)][g]]

\* for gpuID, usage := range member.GPUZones { total[gpuID] += usage }
AggregateGPUZones(members, zones) ==
    LET gpus == UNION {DOMAIN zones[m] : m \in members}
    IN  [g \in gpus |-> Usage(SumGPUField(members, zones, g, "Power"),
                              SumGPUField(members, zones, g, "EnergyTotal"))]

calculateContainerGPUPower(processes, containers) ==
    [c \in containers |->
        AggregateGPUZones({pid \in DOMAIN processes : processes[pid].ContainerID = c},
                          [pid \in DOMAIN processes |-> processes[pid].GPUZones])]

calculatePodGPUPower(containerPods, containerZones, pods) ==
    [p \in pods |->
        AggregateGPUZones({c \in DOMAIN containerPods : containerPods[c].PodID = p},
                          containerZones)]

\* ------------------------------------------- specification: GPU aggregation
AggPids == {1234, 5678}
AggContainers == {"container-1", "container-2"}
AggPods == {"pod-1", "pod-2"}
AggGPUs == {0, 1}
AggUsages == {Usage(1, 1), Usage(2, 3)}
AggMaps == UNION {[gs -> AggUsages] : gs \in SUBSET AggGPUs}

\* The processes of TestContainerGPUPowerAggregation.
AggTestProcesses ==
    (1234 :> [ContainerID |-> "container-1",
              GPUZones |-> (0 :> Usage(50, 1000)) @@ (1 :> Usage(20, 500))]) @@
    (5678 :> [ContainerID |-> "container-1",
              GPUZones |-> (0 :> Usage(30, 600)) @@ (1 :> Usage(40, 800))])

AggInputs ==
    [Processes : [AggPids -> [ContainerID : AggContainers \cup {""}, GPUZones : AggMaps]]
                     \cup {AggTestProcesses},
     Containers : [AggContainers -> [PodID : AggPods]]]

AggPending == [Containers |-> NoRun, Pods |-> NoRun]

InitAgg ==
    /\ InitPM(-1, 0, TRUE, AggGPUs)
    /\ edIn \in AggInputs
    /\ edOut = AggPending

ApplyContainerGPU ==
    /\ edOut.Containers = NoRun
    /\ edOut' = [edOut EXCEPT !.Containers =
                    calculateContainerGPUPower(edIn.Processes, AggContainers)]
    /\ UNCHANGED <<pmVars, cfgVars, envVars, histVars, expVars, edIn, loopVars>>

ApplyPodGPU ==
    /\ edOut.Containers # NoRun
    /\ edOut.Pods = NoRun
    /\ edOut' = [edOut EXCEPT !.Pods =
                    calculatePodGPUPower(edIn.Containers, edOut.Containers, AggPods)]
    /\ UNCHANGED <<pmVars, cfgVars, envVars, histVars, expVars, edIn, loopVars>>

NextAgg == ApplyContainerGPU \/ ApplyPodGPU

SpecAgg == InitAgg /\ [][NextAgg]_vars

\* Field of the usage a member holds for GPU g, zero without an entry.
AggField(zones, g, field) == IF g \in DOMAIN zones THEN zones[g][field] ELSE 0

AggProcessSum(c, g, field) ==
    SumOver({pid \in AggPids : edIn.Processes[pid].ContainerID = c},
            [pid \in AggPids |-> AggField(edIn.Processes[pid].GPUZones, g, field)])

AggContainerSum(p, g, field) ==
    SumOver({c \in AggContainers : edIn.Containers[c].PodID = p},
            [c \in AggContainers |-> AggField(edOut.Containers[c], g, field)])

\* C16: a container's GPUZones[g].Power and EnergyTotal are the sums of the
\* values of the processes in it, and a pod's are the sums of the values of
\* its containers; a member without an entry for g contributes zero (a GPU
\* no member has an entry for has none in the aggregate either).
C16_GPUAggregation ==
    /\ edOut.Containers # NoRun =>
          \A c \in AggContainers : \A g \in AggGPUs : \A field \in {"Power", "EnergyTotal"} :
              /\ AggField(edOut.Containers[c], g, field) = AggProcessSum(c, g, field)
              /\ g \in DOMAIN edOut.Containers[c] <=>
                     \E pid \in AggPids : /\ edIn.Processes[pid].ContainerID = c
                                          /\ g \in DOMAIN edIn.Processes[pid].GPUZones
    /\ edOut.Pods # NoRun =>
          \A p \in AggPods : \A g \in AggGPUs : \A field \in {"Power", "EnergyTotal"} :
              /\ AggField(edOut.Pods[p], g, field) = AggContainerSum(p, g, field)
              /\ g \in DOMAIN edOut.Pods[p] <=>
                     \E c \in AggContainers : /\ edIn.Containers[c].PodID = p
                                              /\ g \in DOMAIN edOut.Containers[c]
    /\ (edIn.Processes = AggTestProcesses /\ edOut.Containers # NoRun) =>
          edOut.Containers["container-1"] = (0 :> Usage(80, 1600)) @@ (1 :> Usage(60, 1300))

\* Both containers of pod-1 hold GPU 0, only one holds GPU 1, and the pod
\* carries the sum for GPU 0 and the single value for GPU 1.
C16_PodSumsWithMissingMember ==
    /\ edOut.Pods # NoRun
    /\ \A c \in AggContainers : edIn.Containers[c].PodID = "pod-1"
    /\ edOut.Containers["container-1"] = (0 :> Usage(1, 1))
    /\ edOut.Containers["container-2"] = (0 :> Usage(2, 3)) @@ (1 :> Usage(2, 3))
    /\ edOut.Pods["pod-1"] = (0 :> Usage(3, 4)) @@ (1 :> Usage(2, 3))

\* ------------------------------------------ specification: collection loop
\* The loop of monitor.go with its cancellation signal, informer refreshes
\* that may fail, the publisher, and concurrent readers calling Current().
MaxSeq == 3
LoopReads == [{"package"} -> 0..ZoneMax]

\* The sequence number a publish gives the new snapshot.  The mutant starts
\* again from 1 after the second publish.
PublishSeqRestart(number) == IF number >= 2 THEN 1 ELSE number + 1

PublishSeq(number) == number + 1

\* What the publisher holds after a tick whose informer refresh failed, given
\* what it held (current) and the snapshot under construction (building).
\* The mutant swaps the unfinished snapshot in.
AbandonedSwapsBuilder(current, building) == building

Abandoned(current, building) == current

\* The loop states in which the ticker may start another tick.  The mutant
\* keeps ticking after the cancellation was handled.
TickingStatesAll == {"FirstRead", "Steady", "Stopped"}

TickingStates == {"FirstRead", "Steady"}

InitLoop ==
    /\ InitPM(-1, 0, FALSE, {})
    /\ edIn = IdleDelta
    /\ edOut = NotComputed

\* Run(): the loop starts and goes to its first reading.
LoopStart ==
    /\ loopState = "Idle"
    /\ loopState' = "FirstRead"
    /\ UNCHANGED <<pmVars, cfgVars, envVars, histVars, expVars, edVars, seq, reader, lastTick>>

\* The first tick with a successful refresh: firstReading and publish.
LoopFirstRead ==
    /\ loopState \in TickingStates
    /\ seq < MaxSeq
    /\ \E reads \in LoopReads : FirstRead(RatioDen, reads, NoRun, 0, NoGPU, {}, NoUtil)
    /\ loopState' = "Steady"
    /\ seq' = PublishSeq(seq)
    /\ lastTick' = TickRecord("published", lastTick.outcome, loopState, seq, snapshot)
    /\ UNCHANGED reader

\* A steady tick with a successful refresh: calculatePower and publish.
LoopTick ==
    /\ loopState \in TickingStates
    /\ seq < MaxSeq
    /\ \E reads \in LoopReads : Tick(RatioDen, 1, reads, NoRun, 0, {}, NoGPU, {}, NoGPU, NoUtil)
    /\ seq' = PublishSeq(seq)
    /\ lastTick' = TickRecord("published", lastTick.outcome, loopState, seq, snapshot)
    /\ UNCHANGED <<loopState, reader>>

\* A tick whose informer refresh fails: refreshSnapshot returns the error
\* before anything is stored.
LoopTickAbandoned ==
    /\ loopState \in TickingStates
    /\ snapshot' = Abandoned(snapshot, NewSnapshot)
    /\ lastTick' = TickRecord("abandoned", lastTick.outcome, loopState, seq, snapshot)
    /\ UNCHANGED <<published, tracker, exported, cfgVars, envVars, histVars, expVars,
                   edVars, loopState, seq, reader>>

\* The cancellation signal is handled: ctx.Done() in the loop's select.
LoopCancel ==
    /\ loopState # "Stopped"
    /\ loopState' = "Stopped"
    /\ UNCHANGED <<pmVars, cfgVars, envVars, histVars, expVars, edVars, seq, reader, lastTick>>

\* A reader calls Current(): one atomic load of the published handle.
ReaderCurrent(r) ==
    /\ reader' = [reader EXCEPT ![r] = Observed(seq, reader[r].seen, snapshot, loopState)]
    /\ UNCHANGED <<pmVars, cfgVars, envVars, histVars, expVars, edVars, loopState, seq, lastTick>>

ReaderStep == \E r \in Readers : ReaderCurrent(r)

NextLoop ==
    LoopStart \/ LoopFirstRead \/ LoopTick \/ LoopTickAbandoned \/ LoopCancel \/ ReaderStep

SpecLoop == InitLoop /\ [][NextLoop]_vars

\* C17: whatever the interleaving of the writer's publishes with the readers,
\* a reader whose Current() returned snapshot N gets N or a later-published
\* snapshot from its next Current(), never an earlier one.
C17_ReaderNeverGoesBack ==
    \A r \in Readers :
        /\ reader[r].before <= reader[r].seen
        /\ reader[r].seen <= seq

\* One reader saw snapshot 1 and then snapshot 2 while the other still holds
\* snapshot 1 and the writer has published a third.
C17_ReadersInterleaved ==
    /\ reader[1].before = 1 /\ reader[1].seen = 2
    /\ reader[2].seen = 1
    /\ seq = 3

\* C18: a tick whose informer refresh fails publishes no snapshot: the
\* published snapshot and its sequence number are those from before the tick,
\* a reader holding that sequence number holds that snapshot, the loop is
\* where it was (unless cancelled since), and another tick can publish.
C18_RefreshFailureKeepsSnapshot ==
    lastTick.outcome = "abandoned" =>
        /\ seq = lastTick.seq
        /\ snapshot = lastTick.snapshot
        /\ \A r \in Readers : reader[r].seen = seq => reader[r].snapshot = lastTick.snapshot
        /\ loopState \in {lastTick.state, "Stopped"}
        /\ (loopState \in TickingStates /\ seq < MaxSeq) => ENABLED (LoopFirstRead \/ LoopTick)

\* The second snapshot was published by the tick that followed an abandoned
\* one, and a reader that called Current() in between still holds the first.
C18_PublishedAfterFailure ==
    /\ lastTick.outcome = "published"
    /\ lastTick.previous = "abandoned"
    /\ seq = 2
    /\ reader[1].seen = 1

LoopRank == [Idle |-> 0, FirstRead |-> 1, Steady |-> 2, Stopped |-> 3]

\* C19: the loop only moves forward along Idle, FirstRead, Steady, Stopped;
\* once it is Stopped it stays Stopped, no snapshot is published, and every
\* Current() returns the last snapshot published before the stop.
C19_StoppedIsTerminal ==
    [][/\ LoopRank[loopState'] >= LoopRank[loopState]
       /\ loopState = "Stopped" =>
             /\ loopState' = "Stopped"
             /\ seq' = seq
             /\ snapshot' = snapshot
             /\ \A r \in Readers :
                   reader'[r] # reader[r] =>
                       /\ reader'[r].seen = seq
                       /\ reader'[r].snapshot = snapshot]_vars

\* The loop was cancelled after its second publish and a reader called
\* Current() after the stop.
C19_ReadAfterStop ==
    /\ loopState = "Stopped"
    /\ seq = 2
    /\ lastTick.outcome = "published"
    /\ reader[1].at = "Stopped"
    /\ reader[1].seen = 2
    /\ reader[2].seen = 0

\* -------------------------------------- specification: bounded retention
\* Processes terminate in any order and grouping between clears of a tracker
\* with a positive capacity.
RetainPids == {1, 2, 3}
RetainCapacities == {1, 2}
RetainThresholds == {0, 1}
RetainEnergies == {0, 1, 2}

RetainInputs ==
    [capacity : RetainCapacities, threshold : RetainThresholds,
     energy : [RetainPids -> RetainEnergies]]

\* The previous snapshot, holding every process with its EnergyTotal.
RetainPrev(in) ==
    [Processes |-> [pid \in RetainPids |->
                       [Zones |-> [z \in {ZoneOrder[1]} |-> Usage(0, in.energy[pid])],
                        GPUZones |-> NoRun]]]

InitRetain ==
    /\ InitPM(-1, 0, FALSE, {})
    /\ edIn \in RetainInputs
    /\ edOut = [tracker |-> NoProcesses, sinceClear |-> {}, ever |-> {}]

\* A tick in which the informer reports the processes of `terminated`.
RetainTerminate ==
    /\ \E terminated \in SUBSET (RetainPids \ edOut.ever) :
          /\ terminated # {}
          /\ edOut' = [tracker |-> AddTerminated(edOut.tracker, terminated, RetainPrev(edIn),
                                                 edIn.capacity, edIn.threshold),
                       sinceClear |-> edOut.sinceClear \cup terminated,
                       ever |-> edOut.ever \cup terminated]
    /\ UNCHANGED <<pmVars, cfgVars, envVars, histVars, expVars, edIn, loopVars>>

\* A tick after an export: the tracker is cleared.
RetainClear ==
    /\ edOut.sinceClear # {}
    /\ edOut' = [edOut EXCEPT !.tracker = ClearIfExported(edOut.tracker, TRUE),
                              !.sinceClear = {}]
    /\ UNCHANGED <<pmVars, cfgVars, envVars, histVars, expVars, edIn, loopVars>>

NextRetain == RetainTerminate \/ RetainClear

SpecRetain == InitRetain /\ [][NextRetain]_vars

\* Processes terminated since the last clear whose energy reaches the threshold.
RetainEligible == {p \in edOut.sinceClear : edIn.energy[p] >= edIn.threshold}

\* C20: with maxTerminated = N > 0 the terminated list never holds more than
\* N entries; it holds eligible workloads terminated since the last clear, as
\* many as there are up to N, and none left out has a higher EnergyTotal than
\* one retained.
C20_TopNRetained ==
    LET kept == DOMAIN edOut.tracker
    IN  /\ Cardinality(kept) <= edIn.capacity
        /\ kept \subseteq RetainEligible
        /\ Cardinality(kept) = Min(edIn.capacity, Cardinality(RetainEligible))
        /\ \A p \in kept : TrackerEnergy(edOut.tracker[p]) = edIn.energy[p]
        /\ \A p \in kept, q \in RetainEligible \ kept : edIn.energy[p] >= edIn.energy[q]

\* Three eligible processes terminated since the last clear and a tracker of
\* capacity 2 holds the two with the higher energy.
C20_LowestEvicted ==
    /\ edIn.capacity = 2
    /\ edIn.energy = (1 :> 1) @@ (2 :> 2) @@ (3 :> 2)
    /\ edIn.threshold = 1
    /\ edOut.sinceClear = RetainPids
    /\ DOMAIN edOut.tracker = {2, 3}

\* Entries the last tick's tracker started from: none after an export.
KeptFromBefore ==
    IF lastRead.exported THEN {} ELSE DOMAIN prevSnapshot.TerminatedProcesses

\* C21: a terminated process is passed to the tracker at most once, even if
\* the informer lists its pid as terminated in more than one tick.  An entry
\* of TerminatedProcesses that the tick did not start from is a process the
\* previous snapshot held as running and the informer reported terminated; a
\* process passed to the tracker was never reported terminated before, and
\* none reported terminated is ever held as running again.
C21_TerminatedAddedOnce ==
    /\ [](published = 2 =>
            /\ (DOMAIN snapshot.TerminatedProcesses \ KeptFromBefore) \subseteq JustTerminated
            /\ JustTerminated \cap DOMAIN prevSnapshot.TerminatedProcesses = {}
            /\ dead \cap DOMAIN snapshot.Processes = {})
    /\ [][\A pid \in resources'.Terminated \cap DOMAIN snapshot.Processes : pid \notin dead]_vars

\* The informer listed a pid as terminated again after the tracker had been
\* cleared of it, and the tick did not take it a second time.
C21_ListedAgainNotAdded ==
    /\ published = 2
    /\ lastRead.exported
    /\ maxTerminated < 0
    /\ minEnergy = 0
    /\ \E pid \in resources.Terminated :
          /\ pid \in DOMAIN prevSnapshot.TerminatedProcesses
          /\ pid \notin DOMAIN snapshot.TerminatedProcesses

\* ------------------------------------- config.go: validateExperimentalConfig
\* The GPU part, for a configuration whose other settings are valid and whose
\* Redfish feature is off.  The result is the list of errors, by subject.
\* The mutant takes an empty DCGM mode for an invalid one.
validateGPUConfigModeRequired(cfg, skipped) ==
    IF ~cfg.Enabled \/ skipped THEN << >>
    ELSE (IF cfg.Type # "dcgm" /\ cfg.Type # "fake" THEN <<"type">> ELSE << >>)
         \o (IF cfg.UpdateFreq <= 0 THEN <<"updateFreq">> ELSE << >>)
         \o (IF Len(cfg.Devices) = 0 THEN <<"devices">> ELSE << >>)
         \o (IF cfg.Type = "dcgm"
             THEN (IF cfg.DCGMMode # "embedded" /\ cfg.DCGMMode # "standalone"
                   THEN <<"dcgmMode">> ELSE << >>)
                  \o (IF cfg.DCGMMode = "standalone" /\ cfg.DCGMAddress = ""
                      THEN <<"dcgmAddress">> ELSE << >>)
             ELSE << >>)

validateGPUConfig(cfg, skipped) ==
    IF ~cfg.Enabled \/ skipped THEN << >>
    ELSE (IF cfg.Type # "dcgm" /\ cfg.Type # "fake" THEN <<"type">> ELSE << >>)
         \o (IF cfg.UpdateFreq <= 0 THEN <<"updateFreq">> ELSE << >>)
         \o (IF Len(cfg.Devices) = 0 THEN <<"devices">> ELSE << >>)
         \o (IF cfg.Type = "dcgm"
             THEN (IF cfg.DCGMMode # "" /\ cfg.DCGMMode # "embedded"
                      /\ cfg.DCGMMode # "standalone"
                   THEN <<"dcgmMode">> ELSE << >>)
                  \o (IF cfg.DCGMMode = "standalone" /\ cfg.DCGMAddress = ""
                      THEN <<"dcgmAddress">> ELSE << >>)
             ELSE << >>)

\* Validate: an error if and only if the list is not empty.
Validate(cfg, skipped) == IF Len(validateGPUConfig(cfg, skipped)) > 0 THEN "error" ELSE "nil"

\* NewDCGMGPUPowerMeter: how DCGM is initialised for the configured mode.
DCGMInitMode(mode, address) ==
    LET DCGMMode == IF mode = "" THEN "embedded" ELSE mode
    IN  IF DCGMMode = "standalone"
        THEN IF address = "" THEN "error" ELSE "InitStandalone"
        ELSE "Init"

\* ---------------------------------- specification: GPU configuration
GPUTypes == {"dcgm", "fake", "nvml", ""}
GPUUpdateFreqs == {-1, 0, 1}
GPUDeviceLists == {<< >>, <<0>>, <<0, 1>>}
DCGMModes == {"", "embedded", "standalone", "remote"}
DCGMAddresses == {"", "localhost:5555"}

GPUConfigs ==
    [Enabled : BOOLEAN, Type : GPUTypes, UpdateFreq : GPUUpdateFreqs,
     Devices : GPUDeviceLists, DCGMMode : DCGMModes, DCGMAddress : DCGMAddresses,
     skipped : BOOLEAN]

ValidatePending == [result |-> "pending", errs |-> << >>, init |-> "none"]

InitValidate ==
    /\ InitPM(-1, 0, FALSE, {})
    /\ edIn \in GPUConfigs
    /\ edOut = ValidatePending

ApplyValidate ==
    /\ edOut.result = "pending"
    /\ edOut' = [edOut EXCEPT !.result = Validate(edIn, edIn.skipped),
                              !.errs = validateGPUConfig(edIn, edIn.skipped)]
    /\ UNCHANGED <<pmVars, cfgVars, envVars, histVars, expVars, edIn, loopVars>>

\* The meter is created for an accepted, enabled dcgm configuration.
ApplyNewDCGMMeter ==
    /\ edOut.result = "nil"
    /\ edOut.init = "none"
    /\ edIn.Enabled
    /\ edIn.Type = "dcgm"
    /\ edOut' = [edOut EXCEPT !.init = DCGMInitMode(edIn.DCGMMode, edIn.DCGMAddress)]
    /\ UNCHANGED <<pmVars, cfgVars, envVars, histVars, expVars, edIn, loopVars>>

NextValidate == ApplyValidate \/ ApplyNewDCGMMeter

SpecValidate == InitValidate /\ [][NextValidate]_vars

\* The conditions under which an enabled GPU configuration is to be rejected.
GPUConfigInvalid(cfg) ==
    \/ cfg.Type \notin {"dcgm", "fake"}
    \/ cfg.UpdateFreq <= 0
    \/ Len(cfg.Devices) = 0
    \/ cfg.Type = "dcgm" /\ cfg.DCGMMode \notin {"", "embedded", "standalone"}
    \/ cfg.Type = "dcgm" /\ cfg.DCGMMode = "standalone" /\ cfg.DCGMAddress = ""

\* C22: Validate (experimental validation not skipped) rejects a configuration
\* with the GPU feature enabled exactly when the type is neither dcgm nor fake,
\* the update frequency is not positive, no device is listed, the dcgm mode is
\* not empty, embedded or standalone, or the dcgm mode is standalone without
\* an address; an empty mode is accepted and the meter initialises DCGM as in
\* embedded mode.
C22_GPUConfigRejectedExactlyWhenInvalid ==
    /\ (edOut.result # "pending" /\ edIn.Enabled /\ ~edIn.skipped) =>
          (edOut.result = "error" <=> GPUConfigInvalid(edIn))
    /\ (edOut.init # "none" /\ ~edIn.skipped) =>
          /\ edOut.init # "error"
          /\ edIn.DCGMMode \in {"", "embedded"} => edOut.init = "Init"
          /\ edIn.DCGMMode = "standalone" => edOut.init = "InitStandalone"

\* The old configuration without a dcgm mode was accepted and its meter
\* initialised DCGM in embedded mode.
C22_EmptyModeAcceptedAsEmbedded ==
    /\ edIn.Enabled /\ ~edIn.skipped
    /\ edIn.Type = "dcgm"
    /\ edIn.DCGMMode = ""
    /\ edIn.DCGMAddress = ""
    /\ edOut.result = "nil"
    /\ edOut.init = "Init"

\* ------------------------------------------ fake_gpu_power_meter.go
\* The meter: running, devices, processPower (pid -> metrics, per monitored
\* GPU), and the number of live simulateProcessGPUUsage goroutines.
FakeMeter(running, processPower, sims) ==
    [running |-> running, devices |-> GPUIds, processPower |-> processPower, sims |-> sims]

FakeMetrics(power, energy, smUtilization) ==
    [power |-> power, energy |-> energy, smUtilization |-> smUtilization]

\* What a call returned.
FakeResult(err, power, energy) == [err |-> err, power |-> power, energy |-> energy]

fakeProcessPower(m, pid, gpuID) ==
    IF ~m.running THEN FakeResult("not started", 0, 0)
    ELSE IF gpuID \notin m.devices THEN FakeResult("not monitored", 0, 0)
    ELSE IF pid \notin DOMAIN m.processPower THEN FakeResult("nil", 0, 0)
    ELSE FakeResult("nil", m.processPower[pid].power, m.processPower[pid].energy)

\* The result carries SMUtilization as power and EnergyConsumed as energy.
fakeProcessUtilization(m, pid, gpuID) ==
    IF ~m.running THEN FakeResult("not started", 0, 0)
    ELSE IF gpuID \notin m.devices THEN FakeResult("not monitored", 0, 0)
    ELSE IF pid \notin DOMAIN m.processPower THEN FakeResult("not found", 0, 0)
    ELSE FakeResult("nil", m.processPower[pid].smUtilization, m.processPower[pid].energy)

fakeStart(m) ==
    IF m.running THEN m
    ELSE [m EXCEPT !.running = TRUE, !.sims = m.sims + 1]

\* The mutant leaves the meter running.
fakeStopKeepsRunning(m) == m

fakeStop(m) == [m EXCEPT !.running = FALSE]

\* -------------------------------------- specification: fake GPU meter
MaxSims == 2
MaxStarts == 2
FakePids == {1234, 5678}
FakeQueryGPUs == {0, 99}
FakeUsages == {FakeMetrics(50, 1000, 0), FakeMetrics(0, 0, 10)}
FakeMaps == UNION {[ps -> FakeUsages] : ps \in SUBSET FakePids}

\* edIn: the meter with the history of its lifecycle calls; edOut: the last
\* query with its result and the lifecycle history at the time of the call.
FakeState(m, last, starts) == [meter |-> m, last |-> last, starts |-> starts]

FakeNoCall ==
    [call |-> "none", pid |-> 0, gpu |-> 0, last |-> "New", starts |-> 0, hadUsage |-> FALSE,
     result |-> FakeResult("none", 0, 0)]

InitFake ==
    /\ InitPM(-1, 0, TRUE, GPUIds)
    /\ edIn = FakeState(FakeMeter(FALSE, NoRun, 0), "New", 0)
    /\ edOut = FakeNoCall

FakeStart ==
    /\ edIn.meter.running \/ edIn.meter.sims < MaxSims
    /\ edIn' = FakeState(fakeStart(edIn.meter), "Start", Min(MaxStarts, edIn.starts + 1))
    /\ UNCHANGED <<pmVars, cfgVars, envVars, histVars, expVars, edOut, loopVars>>

FakeStop ==
    /\ edIn' = FakeState(fakeStop(edIn.meter), "Stop", edIn.starts)
    /\ UNCHANGED <<pmVars, cfgVars, envVars, histVars, expVars, edOut, loopVars>>

\* One round of a simulateProcessGPUUsage goroutine: it ends when the meter
\* is not running, otherwise it rewrites the usage of its processes.
FakeSimulate ==
    /\ edIn.meter.sims > 0
    /\ \/ /\ ~edIn.meter.running
          /\ edIn' = [edIn EXCEPT !.meter.sims = edIn.meter.sims - 1]
       \/ /\ edIn.meter.running
          /\ \E usage \in FakeMaps : edIn' = [edIn EXCEPT !.meter.processPower = usage]
    /\ UNCHANGED <<pmVars, cfgVars, envVars, histVars, expVars, edOut, loopVars>>

\* SetProcessPower / SetProcessUtilization called by a test.
FakeSetProcessPower ==
    /\ \E pid \in FakePids, metrics \in FakeUsages :
          edIn' = [edIn EXCEPT !.meter.processPower =
                      [p \in DOMAIN edIn.meter.processPower \cup {pid} |->
                          IF p = pid THEN metrics ELSE edIn.meter.processPower[p]]]
    /\ UNCHANGED <<pmVars, cfgVars, envVars, histVars, expVars, edOut, loopVars>>

FakeQuery(call, pid, gpuID, result) ==
    [call |-> call, pid |-> pid, gpu |-> gpuID, last |-> edIn.last, starts |-> edIn.starts,
     hadUsage |-> pid \in DOMAIN edIn.meter.processPower, result |-> result]

FakeProcessPower ==
    /\ \E pid \in FakePids, gpuID \in FakeQueryGPUs :
          edOut' = FakeQuery("ProcessPower", pid, gpuID, fakeProcessPower(edIn.meter, pid, gpuID))
    /\ UNCHANGED <<pmVars, cfgVars, envVars, histVars, expVars, edIn, loopVars>>

FakeProcessUtilization ==
    /\ \E pid \in FakePids, gpuID \in FakeQueryGPUs :
          edOut' = FakeQuery("ProcessUtilization", pid, gpuID,
                             fakeProcessUtilization(edIn.meter, pid, gpuID))
    /\ UNCHANGED <<pmVars, cfgVars, envVars, histVars, expVars, edIn, loopVars>>

NextFake ==
    FakeStart \/ FakeStop \/ FakeSimulate \/ FakeSetProcessPower
        \/ FakeProcessPower \/ FakeProcessUtilization

SpecFake == InitFake /\ [][NextFake]_vars

\* C23: ProcessPower and ProcessUtilization return "not started" whenever the
\* last lifecycle call was not Start (before the first Start, after every
\* Stop); after Start, ProcessPower returns "not monitored" for a GPU outside
\* the devices and (0, 0, nil) for a process without recorded usage.
C23_FakeMeterNotStarted ==
    edOut.call # "none" =>
        /\ edOut.last # "Start" <=> edOut.result.err = "not started"
        /\ (edOut.call = "ProcessPower" /\ edOut.last = "Start") =>
              /\ edOut.gpu \notin GPUIds => edOut.result.err = "not monitored"
              /\ (edOut.gpu \in GPUIds /\ ~edOut.hadUsage) =>
                    edOut.result = FakeResult("nil", 0, 0)

\* The meter was started a second time and stopped again, usage was still
\* recorded, and ProcessPower returned "not started".
C23_NotStartedAfterSecondStop ==
    /\ edOut.call = "ProcessPower"
    /\ edOut.last = "Stop"
    /\ edOut.starts = 2
    /\ edOut.hadUsage
    /\ edOut.result.err = "not started"

\* -------------------- specification: power of one GPU in a steady tick
\* collectNodeGPUData for one GPU with a previous reading: the counter before
\* and now, DevicePower's answer, and the whole seconds between the snapshots.
DeviceEnergies == {0, 1, 2}
DevicePowers == {NoPower, 0, 2}
DeviceTimeDiffs == {1, 2}

\* The counter only grows between the two reads.
DeviceInputs ==
    {in \in [previous : DeviceEnergies, current : DeviceEnergies,
             activeTotal : DeviceEnergies, instantPower : DevicePowers,
             timeDiff : DeviceTimeDiffs] : in.previous <= in.current}

DevicePending ==
    NodeUsage(NotComputed, NotComputed, NotComputed, NotComputed,
              NotComputed, NotComputed, NotComputed)

\* The GPU zones of the previous snapshot.
DevicePrev(in) ==
    [g \in GPUIds |-> NodeUsage(in.previous, 0, in.activeTotal, 0, 0, 0, 0)]

InitDevice ==
    /\ InitPM(-1, 0, TRUE, GPUIds)
    /\ edIn \in DeviceInputs
    /\ edOut = DevicePending

ApplyDevice ==
    /\ edOut = DevicePending
    /\ \E g \in GPUIds :
          edOut' = GPUZoneUsage(DevicePrev(edIn), g, edIn.current, edIn.instantPower,
                                edIn.timeDiff)
    /\ UNCHANGED <<pmVars, cfgVars, envVars, histVars, expVars, edIn, loopVars>>

SpecDevice == InitDevice /\ [][ApplyDevice]_vars

\* C24: for a GPU with a previous reading, without an instantaneous device
\* power the tick's Power and ActivePower are delta / dt with dt the seconds
\* between the two snapshots; with an instantaneous reading they are that
\* reading.
C24_GPUPowerFromDelta ==
    edOut # DevicePending =>
        LET delta == calculateEnergyDelta(edIn.current, edIn.previous, GPUMaxEnergy)
            expected == IF edIn.instantPower # NoPower
                        THEN edIn.instantPower
                        ELSE delta \div edIn.timeDiff
        IN  /\ edOut.Power = expected
            /\ edOut.ActivePower = expected

\* ----------------- specification: the record of a terminated process
\* One process of the previous snapshot is reported terminated in a tick in
\* which the zone has the interval energy activeEnergy; the process used
\* cpuTimeDelta of the interval's CPU time and the others otherDelta.
FinalPid == 1
FinalEnergies == {0, 1, 2}
FinalDeltas == {0, 1, 2}
FinalOtherDeltas == {0, 1}

FinalInputs ==
    [EnergyTotal : FinalEnergies, activeEnergy : FinalEnergies,
     cpuTimeDelta : FinalDeltas, otherDelta : FinalOtherDeltas]

\* The previous snapshot, holding the process as running.
FinalPrev(in) ==
    [Processes |-> [pid \in {FinalPid} |->
                       [Zones |-> [z \in {ZoneOrder[1]} |-> Usage(0, in.EnergyTotal)],
                        GPUZones |-> NoRun]],
     TerminatedProcesses |-> NoProcesses]

InitFinal ==
    /\ InitPM(-1, 0, FALSE, {})
    /\ edIn \in FinalInputs
    /\ edOut = NoProcesses

\* The terminated loop of the tick, with unbounded retention and no threshold.
ApplyFinal ==
    /\ edOut = NoProcesses
    /\ edOut' = AddTerminated(NoProcesses, {FinalPid}, FinalPrev(edIn), -1, 0)
    /\ UNCHANGED <<pmVars, cfgVars, envVars, histVars, expVars, edIn, loopVars>>

SpecFinal == InitFinal /\ [][ApplyFinal]_vars

\* The process's share of the zone's energy in its final interval.
FinalShare ==
    IF edIn.cpuTimeDelta + edIn.otherDelta = 0 THEN 0
    ELSE Scale(edIn.activeEnergy, edIn.cpuTimeDelta, edIn.cpuTimeDelta + edIn.otherDelta)

\* C25: the EnergyTotal of the terminated record of a process that terminated
\* between two ticks includes its share of the energy of that final interval:
\* it is the EnergyTotal of the previous snapshot plus the share.
C25_FinalIntervalAttributed ==
    edOut # NoProcesses =>
        TrackerEnergy(edOut[FinalPid]) = edIn.EnergyTotal + FinalShare

\* --------------------- dcgm_gpu_power_meter.go: NewDCGMGPUPowerMeter
\* edIn: the options and the DCGM call that fails, if any.  edOut: the
\* position in the constructor, the function's variable err that the deferred
\* cleanup reads, what has been created and destroyed, and what is returned.
DCGMSteps == {"Init", "WatchPidFieldsEx", "FieldGroupCreate", "WatchFieldsWithGroup"}

NewMeterInputs ==
    [DCGMMode : {"", "embedded", "standalone"}, DCGMAddress : DCGMAddresses,
     failAt : DCGMSteps \cup {"none"}]

NewMeterState(pc, err, initialised, cleanupCalled, live, destroyed, result) ==
    [pc |-> pc, err |-> err, initialised |-> initialised, cleanupCalled |-> cleanupCalled,
     live |-> live, destroyed |-> destroyed, result |-> result]

InitNewMeter ==
    /\ InitPM(-1, 0, TRUE, GPUIds)
    /\ edIn \in NewMeterInputs
    /\ edOut = NewMeterState("Init", "nil", FALSE, FALSE, {}, {}, "none")

\* cleanup, err = dcgmLib.Init() or InitStandalone(address); a failure
\* returns before the deferred cleanup is registered.
NewMeterInit ==
    /\ edOut.pc = "Init"
    /\ LET how == DCGMInitMode(edIn.DCGMMode, edIn.DCGMAddress)
       IN  IF how = "error" \/ edIn.failAt = "Init"
           THEN edOut' = [edOut EXCEPT !.pc = "returned", !.result = "error",
                                       !.err = IF how = "error" THEN "nil" ELSE "error"]
           ELSE edOut' = [edOut EXCEPT !.pc = "WatchPidFieldsEx", !.initialised = TRUE]
    /\ UNCHANGED <<pmVars, cfgVars, envVars, histVars, expVars, edIn, loopVars>>

\* groupHandle, err := dcgmLib.WatchPidFieldsEx(...): assigns the function's err.
NewMeterWatchPid ==
    /\ edOut.pc = "WatchPidFieldsEx"
    /\ IF edIn.failAt = "WatchPidFieldsEx"
       THEN edOut' = [edOut EXCEPT !.pc = "deferred", !.err = "error", !.result = "error"]
       ELSE edOut' = [edOut EXCEPT !.pc = "FieldGroupCreate",
                                   !.live = edOut.live \cup {"group"}]
    /\ UNCHANGED <<pmVars, cfgVars, envVars, histVars, expVars, edIn, loopVars>>

\* fieldGroup, err := dcgmLib.FieldGroupCreate(...): assigns the function's
\* err; on failure the group is destroyed.
NewMeterFieldGroup ==
    /\ edOut.pc = "FieldGroupCreate"
    /\ IF edIn.failAt = "FieldGroupCreate"
       THEN edOut' = [edOut EXCEPT !.pc = "deferred", !.err = "error", !.result = "error",
                                   !.live = edOut.live \ {"group"},
                                   !.destroyed = edOut.destroyed \cup {"group"}]
       ELSE edOut' = [edOut EXCEPT !.pc = "WatchFieldsWithGroup",
                                   !.live = edOut.live \cup {"fieldGroup"}]
    /\ UNCHANGED <<pmVars, cfgVars, envVars, histVars, expVars, edIn, loopVars>>

\* if err := dcgmLib.WatchFieldsWithGroup(...); err != nil: this err is a new
\* variable of the if statement, the function's err keeps its value.
NewMeterWatchFields ==
    /\ edOut.pc = "WatchFieldsWithGroup"
    /\ IF edIn.failAt = "WatchFieldsWithGroup"
       THEN edOut' = [edOut EXCEPT !.pc = "deferred", !.result = "error",
                                   !.live = {},
                                   !.destroyed = edOut.destroyed \cup {"group", "fieldGroup"}]
       ELSE edOut' = [edOut EXCEPT !.pc = "deferred", !.result = "meter"]
    /\ UNCHANGED <<pmVars, cfgVars, envVars, histVars, expVars, edIn, loopVars>>

\* The deferred function: if err != nil { cleanup() }.
NewMeterDeferred ==
    /\ edOut.pc = "deferred"
    /\ edOut' = [edOut EXCEPT !.pc = "returned", !.cleanupCalled = (edOut.err # "nil")]
    /\ UNCHANGED <<pmVars, cfgVars, envVars, histVars, expVars, edIn, loopVars>>

NextNewMeter ==
    NewMeterInit \/ NewMeterWatchPid \/ NewMeterFieldGroup \/ NewMeterWatchFields
        \/ NewMeterDeferred

SpecNewMeter == InitNewMeter /\ [][NextNewMeter]_vars

\* C26: when a step after the successful DCGM init fails (watch group, field
\* group, field watch), the constructor returns an error and no meter, the
\* cleanup function of the init has been called, and no group or field group
\* it created is left.
C26_FailedConstructionCleansUp ==
    (/\ edOut.pc = "returned"
     /\ edOut.initialised
     /\ edIn.failAt \in DCGMSteps \ {"Init"})
    => /\ edOut.result = "error"
       /\ edOut.cleanupCalled
       /\ edOut.live = {}

\* ---------------------------------- config.go: MetricsLevelValue.Set
\* A Level is a bit mask with one bit per level name; it is held here as the
\* set of names whose bit is set, so that | is \cup and 0 is {}.
LevelNames == {"node", "process", "container", "vm", "pod"}
MetricsLevelAll == LevelNames

\* ParseLevel([]string{value}) of a valid name: the level with that bit.
ParseLevel(value) == {value}

\* Set(value) on the level the flag points to.
SetLevel(level, value) ==
    LET cleared == IF level = MetricsLevelAll THEN {} ELSE level
    IN  cleared \cup ParseLevel(value)

\* --------------------------------- specification: metrics level flag
MaxSets == 6

\* edIn: the level the flag points to; edOut: the levels supplied so far and
\* the number of Set calls.
InitLevel ==
    /\ InitPM(-1, 0, FALSE, {})
    /\ edIn = MetricsLevelAll
    /\ edOut = [supplied |-> {}, calls |-> 0]

ApplySet ==
    /\ edOut.calls < MaxSets
    /\ \E value \in LevelNames :
          /\ edIn' = SetLevel(edIn, value)
          /\ edOut' = [supplied |-> edOut.supplied \cup ParseLevel(value),
                       calls |-> edOut.calls + 1]
    /\ UNCHANGED <<pmVars, cfgVars, envVars, histVars, expVars, loopVars>>

SpecLevel == InitLevel /\ [][ApplySet]_vars

\* C27: after any sequence of Set calls with valid names on a level that
\* started at the default all, the level is the OR of exactly the levels
\* supplied.
C27_LevelIsOrOfSupplied ==
    edOut.calls > 0 => edIn = edOut.supplied

\* ------------- specification: snapshots held across a tick with failed reads
MaxGapSeq == 4
\* What Energy() of the CPU zone returns: a reading, or an error.
GapReads == [{"package"} -> {ReadErr, 0, 1}]
GapCounters == [GPUIds -> 0..MaxGPUEnergy]
GapPower == [g \in GPUIds |-> 2]

InitGap ==
    /\ InitPM(-1, 0, TRUE, GPUIds)
    /\ edIn = IdleDelta
    /\ edOut = NotComputed

\* firstReading and publish; the read of a zone or of a GPU may fail.
GapFirstRead ==
    /\ loopState \in TickingStates
    /\ seq < MaxGapSeq
    /\ \E reads \in GapReads, counter \in GapCounters, failing \in SUBSET GPUIds :
           FirstRead(RatioDen, reads, NoRun, 0, counter, failing, [g \in GPUIds |-> NoRun])
    /\ loopState' = "Steady"
    /\ seq' = PublishSeq(seq)
    /\ lastTick' = TickRecord("published", lastTick.outcome, loopState, seq, snapshot)
    /\ UNCHANGED reader

\* A steady tick and publish; the read of a zone or of a GPU may fail.
GapTick ==
    /\ loopState \in TickingStates
    /\ seq < MaxGapSeq
    /\ \E reads \in GapReads, counter \in GapCounters, failing \in SUBSET GPUIds :
           Tick(RatioDen, 1, reads, NoRun, 0, {}, counter, failing, GapPower,
                [g \in GPUIds |-> NoRun])
    /\ seq' = PublishSeq(seq)
    /\ lastTick' = TickRecord("published", lastTick.outcome, loopState, seq, snapshot)
    /\ UNCHANGED <<loopState, reader>>

\* A reader takes Snapshot() and keeps what it got.
GapReader == ReaderCurrent(1)

NextGap == LoopStart \/ GapFirstRead \/ GapTick \/ GapReader

SpecGap == InitGap /\ [][NextGap]_vars

\* The cumulative totals of every zone of `later` that `earlier` has too are
\* at least those of `earlier`.
TotalsKept(earlier, later) ==
    \A z \in DOMAIN earlier \cap DOMAIN later :
        /\ later[z].ActiveEnergyTotal >= earlier[z].ActiveEnergyTotal
        /\ later[z].IdleEnergyTotal >= earlier[z].IdleEnergyTotal

\* C28: for every CPU zone and every GPU present in two published snapshots,
\* the node's ActiveEnergyTotal and IdleEnergyTotal in the later one are at
\* least those in the earlier one, also when the zone is missing from a
\* snapshot published between the two.
C28_NodeTotalsNeverDecrease ==
    reader[1].seen < seq =>
        /\ TotalsKept(reader[1].snapshot.Node.Zones, snapshot.Node.Zones)
        /\ TotalsKept(reader[1].snapshot.Node.GPUZones, snapshot.Node.GPUZones)

\* ------- specification: the DCGM energy counter, the update loop, the monitor
MicroJoulesPerMilliJoule == 1000
MaxDeviceStart == 2
MaxDeviceEnergy == 4
MaxMonitorReads == 3

\* dcgm_gpu_power_meter.go: NewDCGMGPUZone, Energy, updateEnergy.
NewDCGMGPUZone == [lastEnergy |-> 0, currentEnergy |-> 0]
DCGMZoneEnergy(z) == z.currentEnergy
updateEnergy(z, energy) == [lastEnergy |-> z.currentEnergy, currentEnergy |-> energy]

\* edIn: the device's counter of millijoules, its value when the meter was
\* created, and the meter's zone; edOut: the number of reads the monitor has
\* made and the node's GPU zones in its last snapshot.
CounterState(device, start, zone) == [device |-> device, start |-> start, zone |-> zone]
MonitorState(reads, gpuZones) == [reads |-> reads, GPUZones |-> gpuZones]

InitCounter ==
    /\ InitPM(-1, 0, TRUE, GPUIds)
    /\ \E start \in 0..MaxDeviceStart : edIn = CounterState(start, start, NewDCGMGPUZone)
    /\ edOut = MonitorState(0, NoZones)

\* The GPU consumes a millijoule.
DeviceConsume ==
    /\ edIn.device < MaxDeviceEnergy
    /\ edIn' = [edIn EXCEPT !.device = @ + 1]
    /\ UNCHANGED <<pmVars, cfgVars, envVars, histVars, expVars, loopVars, edOut>>

\* updateDeviceMetrics: the update loop delivers the device's counter.
UpdateDeviceMetrics ==
    /\ edIn' = [edIn EXCEPT
                  !.zone = updateEnergy(@, edIn.device * MicroJoulesPerMilliJoule)]
    /\ UNCHANGED <<pmVars, cfgVars, envVars, histVars, expVars, loopVars, edOut>>

\* What the monitor gets from Energy() of the zone; a zone of the
\* GPUEnergyZone interface may also return an error.
CounterReads(failed) ==
    [g \in GPUIds |-> IF failed THEN ReadErr ELSE DCGMZoneEnergy(edIn.zone)]

\* The monitor's first read of the GPU.
CounterFirstRead ==
    /\ edOut.reads = 0
    /\ \E failed \in BOOLEAN :
          edOut' = MonitorState(1, initNodeGPUData(CounterReads(failed)))
    /\ UNCHANGED <<pmVars, cfgVars, envVars, histVars, expVars, loopVars, edIn>>

\* A later tick of the monitor.
CounterTick ==
    /\ edOut.reads >= 1
    /\ edOut.reads < MaxMonitorReads
    /\ \E failed \in BOOLEAN :
          edOut' = MonitorState(edOut.reads + 1,
                                collectNodeGPUData(edOut.GPUZones, CounterReads(failed),
                                                   GapPower, NanosPerSecond))
    /\ UNCHANGED <<pmVars, cfgVars, envVars, histVars, expVars, loopVars, edIn>>

NextCounter == DeviceConsume \/ UpdateDeviceMetrics \/ CounterFirstRead \/ CounterTick

SpecCounter == InitCounter /\ [][NextCounter]_vars

\* C29: the active energy the node attributes to a GPU in a tick is at most
\* the advance of the device's counter since the previous read of the
\* monitor, and so at most its advance since monitoring began: energy the
\* device consumed before that is never attributed, whether the first read
\* failed or came before the update loop delivered its first value.
C29_OnlyMonitoredEnergyAttributed ==
    \A g \in DOMAIN edOut.GPUZones :
        edOut.GPUZones[g].activeEnergy
            <= (edIn.device - edIn.start) * MicroJoulesPerMilliJoule

\* ------------------- specification: DCGM meter, Start, Stop, the update loop
MaxLoops == 3
MaxStops == 3
MaxUpdates == 4

\* edIn: the meter: stopCh, the update loops counted by wg, the values the
\* loops delivered, whether the DCGM groups are destroyed.  edOut: where the
\* caller is, the calls of Stop that returned, whether Start was called since
\* the last of them, the updates applied since then, whether a call panicked.
DCGMMeter(stopCh, loops, updates, destroyed) ==
    [stopCh |-> stopCh, loops |-> loops, updates |-> updates, destroyed |-> destroyed]
CallerState(pc, stopped, startedSince, updatesSince, panicked) ==
    [pc |-> pc, stopped |-> stopped, startedSince |-> startedSince,
     updatesSince |-> updatesSince, panicked |-> panicked]

InitStop ==
    /\ InitPM(-1, 0, TRUE, GPUIds)
    /\ edIn = DCGMMeter("open", 0, 0, FALSE)
    /\ edOut = CallerState("idle", 0, FALSE, 0, FALSE)

\* Start: wg.Add(1); go m.updateLoop(); return nil.
DCGMStart ==
    /\ edOut.pc = "idle"
    /\ edIn.loops < MaxLoops
    /\ edIn' = [edIn EXCEPT !.loops = @ + 1]
    /\ edOut' = [edOut EXCEPT !.startedSince = TRUE]
    /\ UNCHANGED <<pmVars, cfgVars, envVars, histVars, expVars, loopVars>>

\* Stop, up to wg.Wait(): close(m.stopCh) panics on a closed channel.
DCGMStopClose ==
    /\ edOut.pc = "idle"
    /\ edOut.stopped < MaxStops
    /\ IF edIn.stopCh = "closed"
       THEN /\ edOut' = [edOut EXCEPT !.pc = "panicked", !.panicked = TRUE]
            /\ UNCHANGED edIn
       ELSE /\ edIn' = [edIn EXCEPT !.stopCh = "closed"]
            /\ edOut' = [edOut EXCEPT !.pc = "Wait"]
    /\ UNCHANGED <<pmVars, cfgVars, envVars, histVars, expVars, loopVars>>

\* Stop, from wg.Wait() on: the groups are destroyed and nil is returned.
DCGMStopReturn ==
    /\ edOut.pc = "Wait"
    /\ edIn.loops = 0
    /\ edIn' = [edIn EXCEPT !.destroyed = TRUE]
    /\ edOut' = [edOut EXCEPT !.pc = "idle", !.stopped = @ + 1,
                              !.startedSince = FALSE, !.updatesSince = 0]
    /\ UNCHANGED <<pmVars, cfgVars, envVars, histVars, expVars, loopVars>>

\* updateLoop, case <-ticker.C: update() stores the device's power and energy.
\* With stopCh closed and the ticker ready, select may take either case.
LoopUpdate ==
    /\ edOut.pc # "panicked"
    /\ edIn.loops > 0
    /\ edIn.updates < MaxUpdates
    /\ edIn' = [edIn EXCEPT !.updates = @ + 1]
    /\ edOut' = [edOut EXCEPT !.updatesSince = Min(@ + 1, 1)]
    /\ UNCHANGED <<pmVars, cfgVars, envVars, histVars, expVars, loopVars>>

\* updateLoop, case <-m.stopCh: return, and the deferred wg.Done().
LoopReturn ==
    /\ edOut.pc # "panicked"
    /\ edIn.loops > 0
    /\ edIn.stopCh = "closed"
    /\ edIn' = [edIn EXCEPT !.loops = @ - 1]
    /\ UNCHANGED <<pmVars, cfgVars, envVars, histVars, expVars, loopVars, edOut>>

NextStop == DCGMStart \/ DCGMStopClose \/ DCGMStopReturn \/ LoopUpdate \/ LoopReturn

SpecStop == InitStop /\ [][NextStop]_vars

\* C30: Stop never panics, whatever calls of Start and Stop came before it,
\* and once it has returned (and until Start is called again) no update loop
\* runs and no update of the device's power or energy is applied.
C30_StopInAnyState ==
    /\ ~edOut.panicked
    /\ (edOut.stopped > 0 /\ ~edOut.startedSince) =>
           /\ edIn.loops = 0
           /\ edOut.updatesSince = 0

====
